---- MODULE Spec2Model ----
(***************************************************************************)
(* Action-resolution engine of fireplace (fireplace/actions.py).           *)
(*                                                                         *)
(* Entities are modelled by their fields; an Action's trigger/do is one    *)
(* step, split only where the code hands control to event listeners (a     *)
(* broadcast) so that their reactions can interleave at exactly the place  *)
(* where the code lets them.  `log` is a history variable: what the        *)
(* operation in progress (or the last one finished) broadcast, queued and  *)
(* returned.                                                               *)
(***************************************************************************)
EXTENDS Integers, Sequences, FiniteSets, TLC

\* ------------------------------------------------------------------ bounds
MaxAmount == 2      \* largest AMOUNT argument submitted
MaxMult == 2        \* largest incoming_damage_multiplier
MaxDamage == 8      \* submissions stop once a character's damage would pass this
MaxAtk == 2         \* largest atk of a character
MaxAttacks == 2     \* attacks submitted in one run
MaxRetargets == 1   \* Retarget reactions per Attack ON broadcast
MaxHandSize == 3    \* max_hand_size of every player
MaxFatigue == 3     \* submissions stop once a fatigue counter would pass this
MaxTimes == 2       \* largest repeat count ("times") of an action
MaxTargets == 2     \* largest target set of one Bounce
MaxOffer == 2       \* most cards offered by a choice / passed to choose
MaxMana == 2        \* mana of a player at the start
MaxDepth == 2       \* reactions nested deeper than this end in RecursionError
MaxField == 3       \* minions a player's field holds

\* ---------------------------------------------------------------- universe
None == "None"
Players == {"p1", "p2"}
Chars == {"h1", "h2", "m1", "m2"}
Minions == {"m1", "m2"}
Cards == {"c1", "c2", "c3", "c4", "c5"}
hero(p) == IF p = "p1" THEN "h1" ELSE "h2"

\* EventListener.ON / EventListener.AFTER
ON == 1
AFTER == 2

VARIABLES
    chars,      \* character fields: atk, damage, predamage, ...
    game,       \* game fields: proposed_attacker, proposed_defender
    players,    \* player fields: choice, fatigue_counter, ...
    cards,      \* card fields: zone, controller, type
    deck,       \* player -> sequence of cards, last element on top
    choices,    \* choice object -> the fields its do() stored (player, cards)
    pc,         \* where the engine is: "idle" or inside a broadcast
    frame,      \* locals of the do() that is suspended in a broadcast
    log         \* history of the current / last top-level operation

vars == <<chars, game, players, cards, deck, choices, pc, frame, log>>

\* ------------------------------------------------------------ history log
NewLog(op) ==
    [ op |-> op, bcasts |-> <<>>, queued |-> <<>>, hits |-> <<>>,
      action |-> 0, action_end |-> 0, raised |-> None, ret |-> <<>>,
      end_turn |-> 0, written |-> <<>>, args |-> <<>> ]

\* Action.broadcast(source, at, *args), lines 90-95: one delivery round
Broadcast(l, kind, source, at, args) ==
    [l EXCEPT !.bcasts = Append(@, [kind |-> kind, source |-> source,
                                    at |-> at, args |-> args])]

\* game.queue_actions(source, [action]): the call is recorded
Queue(l, kind, source, args) ==
    [l EXCEPT !.queued = Append(@, [kind |-> kind, source |-> source,
                                    args |-> args])]

NoFrame == [op |-> None]

\* ------------------------------------------------------------- characters
InitChar ==
    [ atk |-> 0, damage |-> 0, predamage |-> 0,
      incoming_damage_multiplier |-> 0, divine_shield |-> FALSE,
      attack_target |-> None, defending |-> FALSE,
      should_exit_combat |-> FALSE, num_attacks |-> 0,
      stealthed |-> FALSE, max_health |-> 30 ]

\* Character.health (entity layer): max_health less the damage taken
health(c) == c.max_health - c.damage

InitGame == [proposed_attacker |-> None, proposed_defender |-> None]

\* ================================================================ damage
\* Predamage.do lines 576-577: "for i in range(multiplier): amount *= 2"
RECURSIVE PredamageAmountBug(_, _)
PredamageAmountBug(amount, m) ==
    IF m = 0 THEN amount ELSE PredamageAmountBug(amount + 2, m - 1)

RECURSIVE PredamageAmount(_, _)
PredamageAmount(amount, m) ==
    IF m = 0 THEN amount ELSE PredamageAmount(amount * 2, m - 1)

\* Character._hit / Minion._hit (entity layer): a divine shield absorbs the
\* whole hit and is consumed; otherwise the damage is added.  Returns the
\* character and the amount actually dealt.
CharHit(c, amount) ==
    IF c.divine_shield
    THEN [char |-> [c EXCEPT !.divine_shield = FALSE], amount |-> 0]
    ELSE [char |-> [c EXCEPT !.damage = @ + amount], amount |-> amount]

\* Damage.do lines 594-602: "if amount: self.broadcast(...)"
DamageBroadcastsBug(amount) == TRUE
DamageBroadcasts(amount) == amount # 0

\* Damage.get_target_args + Damage.do, lines 591-602.  st = [chars, log].
\* The AMOUNT is read from target.predamage, whatever the constructor got.
DamageDo(st, source, target) ==
    LET staged == st.chars[target].predamage
        h == CharHit(st.chars[target], staged)
        cs1 == [st.chars EXCEPT ![target] = [h.char EXCEPT !.predamage = 0]]
        cs2 == IF source \in Minions /\ cs1[source].stealthed
               THEN [cs1 EXCEPT ![source].stealthed = FALSE] ELSE cs1
        l1 == [st.log EXCEPT !.hits = Append(@, [target |-> target,
                                                 amount |-> staged])]
        l2 == IF DamageBroadcasts(h.amount)
              THEN Broadcast(l1, "Damage", source, ON, <<target, h.amount, source>>)
              ELSE l1
    IN  [chars |-> cs2, log |-> l2, ret |-> h.amount]

\* Predamage.do lines 576-578: the multiplied amount is staged on the target
PredamageStage(cs, target, amount) ==
    [cs EXCEPT ![target].predamage =
        PredamageAmount(amount, cs[target].incoming_damage_multiplier)]

\* Predamage.do up to the ON broadcast (lines 575-580).  With a zero amount
\* do returns 0 at once; otherwise the engine is inside the ON broadcast.
PredamageDo(source, target, amount) ==
    /\ pc = "idle"
    /\ LET cs == PredamageStage(chars, target, amount)
           staged == cs[target].predamage
           l0 == [NewLog("Predamage") EXCEPT !.args =
                    [source |-> source, target |-> target, amount |-> amount,
                     mult |-> chars[target].incoming_damage_multiplier,
                     shield |-> chars[target].divine_shield,
                     damage |-> chars[target].damage]]
       IN  /\ chars[target].damage + staged <= MaxDamage
           /\ chars' = cs
           /\ IF staged # 0
              THEN /\ log' = Broadcast(l0, "Predamage", source, ON, <<target, staged>>)
                   /\ pc' = "Predamage.on"
                   /\ frame' = [op |-> "Predamage", source |-> source,
                                target |-> target]
              ELSE /\ log' = [l0 EXCEPT !.ret = <<0>>]
                   /\ pc' = "idle"
                   /\ frame' = NoFrame
    /\ UNCHANGED <<game, players, cards, deck, choices>>

\* A listener of Predamage ON (card scripts, entity layer) rewrites the staged
\* value before it is applied ("intercept/modify damage", spec 4.4).
PredamageOnListener(v) ==
    /\ pc = "Predamage.on"
    /\ v # chars[frame.target].predamage
    /\ chars' = [chars EXCEPT ![frame.target].predamage = v]
    /\ log' = [log EXCEPT !.written = <<v>>]
    /\ UNCHANGED <<game, players, cards, deck, choices, pc, frame>>

\* Predamage.do line 581: trigger_actions(source, [Damage(target)])[0][0]
PredamageDamage ==
    /\ pc = "Predamage.on"
    /\ LET r == DamageDo([chars |-> chars, log |-> log], frame.source, frame.target)
       IN  /\ chars' = r.chars
           /\ log' = [r.log EXCEPT !.ret = <<r.ret>>]
    /\ pc' = "idle"
    /\ frame' = NoFrame
    /\ UNCHANGED <<game, players, cards, deck, choices>>

\* Predamage.do as a whole (lines 575-582) when no listener reacts to its ON
\* broadcast: stage, broadcast, trigger Damage.  st = [chars, log].
PredamageRun(st, source, target, amount) ==
    LET cs == PredamageStage(st.chars, target, amount)
        staged == cs[target].predamage
    IN  IF staged # 0
        THEN DamageDo([chars |-> cs,
                       log |-> Broadcast(st.log, "Predamage", source, ON,
                                         <<target, staged>>)],
                      source, target)
        ELSE [chars |-> cs, log |-> st.log, ret |-> 0]

\* Entity.get_damage (entity layer) for a source without spell power and a
\* target that is not immune: the amount is left as it is.
get_damage(source, amount, target) == amount

\* game.queue_actions(source, [Hit(target, amount)]) with Hit.do, lines
\* 823-827: the call is recorded and the Hit resolved at once.
HitRun(st, source, target, amount) ==
    LET l1 == Queue(st.log, "Hit", source, <<target, amount>>)
        a == get_damage(source, amount, target)
    IN  IF a # 0
        THEN LET l2 == Queue(l1, "Predamage", source, <<target, a>>)
             IN  PredamageRun([chars |-> st.chars, log |-> l2], source, target, a)
        ELSE [chars |-> st.chars, log |-> l1, ret |-> 0]

\* ==================================================== players and cards
InitPlayer ==
    [ choice |-> None, max_hand_size |-> MaxHandSize, mulligan_state |-> "INVALID",
      fatigue_counter |-> 0, cant_fatigue |-> FALSE ]

NoPlayers == [p \in Players |-> InitPlayer]

GenericChoices == {"g1", "g2"}
MulliganChoices == {"mc"}
\* a choice object before its do() ran
NoChoice == [player |-> None, cards |-> <<>>]
NoChoices == [g \in GenericChoices \cup MulliganChoices |-> NoChoice]

InitCard == [zone |-> "SETASIDE", controller |-> "p1", type |-> "SPELL", id |-> "CARD"]

NoCards == [c \in Cards |-> InitCard]
NoDecks == [p \in Players |-> <<>>]

\* player.hand (entity layer): the cards of the player that are in the HAND zone
hand(cs, p) == {c \in Cards : cs[c].zone = "HAND" /\ cs[c].controller = p}

Remove(seq, c) == SelectSeq(seq, LAMBDA x : x # c)

\* The zone setter of a card (entity layer): the card leaves the container of
\* its old zone and joins the one of the new zone; a card entering the DECK
\* zone is appended to its controller's deck.  st has fields cards and deck.
SetZone(st, c, z) ==
    LET p == st.cards[c].controller
        d1 == [st.deck EXCEPT ![p] = Remove(@, c)]
        d2 == IF z = "DECK" THEN [d1 EXCEPT ![p] = Append(@, c)] ELSE d1
    IN  [st EXCEPT !.cards = [@ EXCEPT ![c].zone = z], !.deck = d2]

\* card.discard() (entity layer): the card goes to the graveyard
discard(st, c) == SetZone(st, c, "GRAVEYARD")

\* card.draw() (entity layer): into the hand, or discarded on overdraw
draw(st, c) ==
    LET p == st.cards[c].controller
    IN  IF Cardinality(hand(st.cards, p)) >= st.players[p].max_hand_size
        THEN discard(st, c)
        ELSE SetZone(st, c, "HAND")

\* The whole state as a record, for the operators that thread it
State == [chars |-> chars, players |-> players, cards |-> cards,
          deck |-> deck, log |-> log]

\* st with the characters and log an operator on [chars, log] returned
WithHit(st, r) == [st EXCEPT !.chars = r.chars, !.log = r.log]

\* ======================================================== draw / fatigue
\* Fatigue.do lines 727-729: "if target.cant_fatigue: return"
FatigueSkipsBug(pl) == FALSE
FatigueSkips(pl) == pl.cant_fatigue

\* Fatigue.do line 730: "target.fatigue_counter += 1"
FatigueTickBug(n) == n
FatigueTick(n) == n + 1

\* player.fatigue() (entity layer) triggering Fatigue(player); Fatigue.do,
\* lines 726-732
FatigueDo(st, source, target) ==
    IF FatigueSkips(st.players[target])
    THEN st
    ELSE LET n == FatigueTick(st.players[target].fatigue_counter)
             s1 == [st EXCEPT !.players[target].fatigue_counter = n]
         IN  WithHit(s1, HitRun([chars |-> s1.chars, log |-> s1.log],
                                source, hero(target), n))

\* Draw.get_target_args lines 703-708 and Draw.do lines 710-717 for one
\* repetition; the per-target result is appended to log.ret
DrawDo(st, source, target) ==
    IF st.deck[target] # <<>>
    THEN LET card == st.deck[target][Len(st.deck[target])]
             s1 == draw(st, card)
         IN  [s1 EXCEPT !.log = [Broadcast(@, "Draw", source, ON,
                                           <<target, card, source>>)
                                 EXCEPT !.ret = Append(@, <<card>>)]]
    ELSE LET s1 == FatigueDo(st, target, target)
         IN  [s1 EXCEPT !.log.ret = Append(@, <<>>)]

\* TargetedAction.trigger lines 485-510 for Draw(target) * times
RECURSIVE DrawRun(_, _, _, _)
DrawRun(st, source, target, times) ==
    IF times = 0 THEN st
    ELSE DrawRun(DrawDo(st, source, target), source, target, times - 1)

\* A Draw(player) * times is triggered
DrawTrigger(source, target, times) ==
    /\ pc = "idle"
    /\ players[target].fatigue_counter + times <= MaxFatigue
    /\ LET l0 == [NewLog("Draw") EXCEPT !.args =
                    [source |-> source, target |-> target, times |-> times,
                     deck |-> deck[target],
                     fatigue_counter |-> players[target].fatigue_counter,
                     cant_fatigue |-> players[target].cant_fatigue]]
           r == DrawRun([State EXCEPT !.log = l0], source, target, times)
       IN  /\ chars' = r.chars
           /\ players' = r.players
           /\ cards' = r.cards
           /\ deck' = r.deck
           /\ log' = r.log
    /\ UNCHANGED <<game, choices, pc, frame>>

\* The orders the cards of S can be listed in
Orders(S) ==
    {o \in [1..Cardinality(S) -> S] :
        \A i, j \in 1..Cardinality(S) : i # j => o[i] # o[j]}

DeckCards == {"c1", "c2"}

InitDraw ==
    /\ chars = [c \in Chars |-> InitChar]
    /\ game = InitGame
    /\ \E cf \in [Players -> BOOLEAN] :
          players = [p \in Players |-> [InitPlayer EXCEPT !.cant_fatigue = cf[p]]]
    /\ \E D \in SUBSET DeckCards : \E o \in Orders(D) :
          /\ deck = [p \in Players |-> IF p = "p1" THEN o ELSE <<>>]
          /\ cards = [c \in Cards |->
                        [InitCard EXCEPT !.zone = IF c \in D THEN "DECK"
                                                 ELSE "SETASIDE"]]
    /\ choices = NoChoices
    /\ pc = "idle"
    /\ frame = NoFrame
    /\ log = NewLog(None)

NextDraw ==
    \E p \in Players, k \in 1..MaxTimes : DrawTrigger(p, p, k)

SpecDraw == InitDraw /\ [][NextDraw]_vars

\* A Draw(player) * times has returned; log.args holds the pre-state
DrawReturned == pc = "idle" /\ log.op = "Draw"
\* how many of its repetitions found the deck empty
EmptyDraws ==
    IF log.args.times > Len(log.args.deck)
    THEN log.args.times - Len(log.args.deck) ELSE 0
HitsQueued == SelectSeq(log.queued, LAMBDA q : q.kind = "Hit")
\* the i-th fatigue Hit: on the player's hero, for the counter after i ticks
FatigueHit(i) ==
    [kind |-> "Hit", source |-> log.args.target,
     args |-> <<hero(log.args.target), log.args.fatigue_counter + i>>]
\* every repetition that found the deck empty returned no card
EmptyDrawsReturnNothing ==
    /\ Len(log.ret) = log.args.times
    /\ \A i \in 1..Len(log.ret) :
          (i > Len(log.args.deck)) <=> (log.ret[i] = <<>>)

\* C7 (as claimed): every Draw on an empty deck returns no card and queues
\* exactly one Hit on the player's hero for the incremented fatigue counter,
\* and the counter strictly increases from one empty draw to the next.
C7_AsClaimed ==
    DrawReturned =>
        /\ EmptyDrawsReturnNothing
        /\ HitsQueued = [i \in 1..EmptyDraws |-> FatigueHit(i)]
        /\ players[log.args.target].fatigue_counter =
              log.args.fatigue_counter + EmptyDraws

\* C7 (amended): every Draw on an empty deck returns no card; for a player
\* without cant_fatigue it queues exactly one Hit on the player's hero for
\* the fatigue counter after incrementing it by one, so the counter strictly
\* increases from one empty draw to the next; for a player with cant_fatigue
\* it queues no Hit and leaves the counter as it is.
C7_Draw ==
    DrawReturned =>
        /\ EmptyDrawsReturnNothing
        /\ IF log.args.cant_fatigue
           THEN /\ HitsQueued = <<>>
                /\ players[log.args.target].fatigue_counter =
                      log.args.fatigue_counter
           ELSE /\ HitsQueued = [i \in 1..EmptyDraws |-> FatigueHit(i)]
                /\ players[log.args.target].fatigue_counter =
                      log.args.fatigue_counter + EmptyDraws

\* C7 witness: two draws in a row from an empty deck, after an earlier
\* fatigue tick, each hit the hero for the next counter value
C7_Witness ==
    /\ DrawReturned /\ ~log.args.cant_fatigue
    /\ log.args.deck = <<>> /\ log.args.times = 2
    /\ log.args.fatigue_counter = 1
    /\ HitsQueued = <<FatigueHit(1), FatigueHit(2)>>
    /\ players[log.args.target].fatigue_counter = 3
    /\ log.ret = << <<>>, <<>> >>

InitDamage ==
    /\ \E m \in [{"h1", "m1"} -> 0..MaxMult], sh \in BOOLEAN, st \in BOOLEAN :
          chars = [c \in Chars |->
                     [InitChar EXCEPT
                        !.incoming_damage_multiplier =
                            IF c \in DOMAIN m THEN m[c] ELSE 0,
                        !.divine_shield = (c = "m1" /\ sh),
                        !.stealthed = (c = "m2" /\ st)]]
    /\ game = InitGame
    /\ players = NoPlayers
    /\ cards = NoCards
    /\ deck = NoDecks
    /\ choices = NoChoices
    /\ pc = "idle"
    /\ frame = NoFrame
    /\ log = NewLog(None)

NextDamage ==
    \/ \E s \in {"h2", "m2"}, t \in {"h1", "m1"}, n \in 0..MaxAmount :
          PredamageDo(s, t, n)
    \/ \E v \in 0..MaxAmount : PredamageOnListener(v)
    \/ PredamageDamage

SpecDamage == InitDamage /\ [][NextDamage]_vars

\* A Predamage has returned; its arguments and pre-state are in log.args
PredamageReturned == pc = "idle" /\ log.op = "Predamage"
DamageBcasts == SelectSeq(log.bcasts, LAMBDA b : b.kind = "Damage")

\* C8 (as claimed): whenever Predamage(target, N) on a target with multiplier
\* M has returned, every amount handed to the target's health reduction was
\* N * 2^M and target.predamage is 0.
C8_AsClaimed ==
    PredamageReturned =>
        /\ chars[log.args.target].predamage = 0
        /\ \A i \in 1..Len(log.hits) :
              log.hits[i].amount = log.args.amount * (2 ^ log.args.mult)

\* C8 (amended): when Predamage(target, N) with multiplier M has returned,
\* target.predamage is 0 on both paths; for N = 0 no Damage ran and 0 was
\* returned; for N > 0 exactly one Damage ran and the amount it handed to the
\* health reduction is N * 2^M if no listener of the Predamage ON broadcast
\* wrote target.predamage, and otherwise the value written last
\* (log.written holds the last value written, if any).
C8_Predamage ==
    PredamageReturned =>
        LET N == log.args.amount
            M == log.args.mult
        IN  /\ chars[log.args.target].predamage = 0
            /\ N = 0 => log.hits = <<>> /\ log.ret = <<0>>
            /\ N > 0 =>
                  log.hits = << [target |-> log.args.target,
                                 amount |-> IF log.written = <<>>
                                            THEN N * (2 ^ M)
                                            ELSE log.written[1]] >>

\* C8 witness: a multiplied, unintercepted Predamage has been applied
C8_Witness ==
    /\ PredamageReturned
    /\ log.args.amount = 2 /\ log.args.mult = 2 /\ log.written = <<>>
    /\ log.hits = << [target |-> log.args.target, amount |-> 8] >>
    /\ chars[log.args.target].predamage = 0

\* C9 (as claimed): for every N >= 0, a Damage on a target without damage
\* prevention with N staged lowers its health by exactly N and delivers
\* exactly one Damage ON broadcast with (target, N, source).
C9_AsClaimed ==
    (PredamageReturned /\ log.hits # <<>> /\ ~log.args.shield) =>
        LET N == log.hits[1].amount
            t == log.args.target
        IN  /\ health(chars[t]) = (chars[t].max_health - log.args.damage) - N
            /\ DamageBcasts = << [kind |-> "Damage", source |-> log.args.source,
                                  at |-> ON,
                                  args |-> <<t, N, log.args.source>>] >>

\* C9 (amended): a Damage on a target without damage prevention with N
\* staged lowers its health by exactly N; for N > 0 exactly one Damage ON
\* broadcast with (target, N, source) is delivered, for N = 0 none is.
C9_Damage ==
    (PredamageReturned /\ log.hits # <<>> /\ ~log.args.shield) =>
        LET N == log.hits[1].amount
            t == log.args.target
        IN  /\ health(chars[t]) = (chars[t].max_health - log.args.damage) - N
            /\ DamageBcasts =
                  IF N > 0
                  THEN << [kind |-> "Damage", source |-> log.args.source,
                           at |-> ON, args |-> <<t, N, log.args.source>>] >>
                  ELSE <<>>

\* C9 witness: an unshielded target took a positive Damage and the broadcast
\* went out
C9_Witness ==
    /\ PredamageReturned /\ ~log.args.shield
    /\ log.hits # <<>> /\ log.hits[1].amount > 0
    /\ chars[log.args.target].damage = log.args.damage + log.hits[1].amount
    /\ Len(DamageBcasts) = 1

\* ================================================================ bounce
\* target._destroy() (entity layer): the destroyed card ends in the graveyard
destroy(st, c) == SetZone(st, c, "GRAVEYARD")

\* Bounce.do line 541: "len(hand) >= max_hand_size"
BounceFullBug(n, max) == n > max
BounceFull(n, max) == n >= max

\* Bounce.do lines 540-546 for one target.  log.ret gets what this target's
\* do saw: the target and the length of its controller's hand.
BounceDo(st, source, target) ==
    LET p == st.cards[target].controller
        n == Cardinality(hand(st.cards, p))
        s0 == [st EXCEPT !.log.ret = Append(@, [target |-> target, hand |-> n])]
    IN  IF BounceFull(n, st.players[p].max_hand_size)
        THEN destroy([s0 EXCEPT !.log = Queue(@, "Destroy", source, <<target>>)],
                     target)
        ELSE SetZone(s0, target, "HAND")

\* TargetedAction.trigger lines 491-497 for a Bounce whose selector resolved
\* to `targets`: the pre-action hook, then the loop over the targets
BounceTrigger(source, targets) ==
    /\ pc = "idle"
    /\ \A i \in 1..Len(targets) : cards[targets[i]].zone = "PLAY"
    /\ log' = [NewLog("Bounce") EXCEPT !.action = 1,
                  !.args = [source |-> source, targets |-> targets]]
    /\ pc' = "Bounce.loop"
    /\ frame' = [op |-> "Bounce", source |-> source, targets |-> targets]
    /\ UNCHANGED <<chars, game, players, cards, deck, choices>>

\* TargetedAction.trigger lines 498-500: do for the next target
BounceNext ==
    /\ pc = "Bounce.loop"
    /\ frame.targets # <<>>
    /\ LET r == BounceDo(State, frame.source, Head(frame.targets))
       IN  /\ cards' = r.cards
           /\ deck' = r.deck
           /\ log' = r.log
    /\ frame' = [frame EXCEPT !.targets = Tail(@)]
    /\ UNCHANGED <<chars, game, players, choices, pc>>

\* TargetedAction.trigger lines 506-510: the post-action hook and the return
BounceEnd ==
    /\ pc = "Bounce.loop"
    /\ frame.targets = <<>>
    /\ log' = [log EXCEPT !.action_end = @ + 1]
    /\ pc' = "idle"
    /\ frame' = NoFrame
    /\ UNCHANGED <<chars, game, players, cards, deck, choices>>

\* cards c1..c3 belong to p1, the others to p2
owner(c) == IF c \in {"c1", "c2", "c3"} THEN "p1" ELSE "p2"

HandsWithinLimit ==
    \A p \in Players : Cardinality(hand(cards, p)) <= players[p].max_hand_size

InitBounce ==
    /\ chars = [c \in Chars |-> InitChar]
    /\ game = InitGame
    /\ \E mh \in [Players -> 1..MaxHandSize] :
          players = [p \in Players |-> [InitPlayer EXCEPT !.max_hand_size = mh[p]]]
    /\ \E z \in [Cards -> {"PLAY", "HAND"}] :
          cards = [c \in Cards |->
                     [InitCard EXCEPT !.zone = z[c], !.controller = owner(c),
                                      !.type = "MINION"]]
    /\ HandsWithinLimit
    /\ deck = NoDecks
    /\ choices = NoChoices
    /\ pc = "idle"
    /\ frame = NoFrame
    /\ log = NewLog(None)

NextBounce ==
    \/ \E s \in Players, T \in SUBSET Cards :
          /\ Cardinality(T) \in 1..MaxTargets
          /\ \E ts \in Orders(T) : BounceTrigger(s, ts)
    \/ BounceNext
    \/ BounceEnd

SpecBounce == InitBounce /\ [][NextBounce]_vars

DestroyQueued(c) ==
    \E i \in 1..Len(log.queued) :
        log.queued[i].kind = "Destroy" /\ log.queued[i].args = <<c>>

\* C10: for every target a Bounce has processed: if its controller's hand
\* held max_hand_size cards or more when the target's turn came, a Destroy
\* of the target was queued and the target is not in the HAND zone;
\* otherwise the target is in the HAND zone and no Destroy of it was queued.
C10_Bounce ==
    log.op = "Bounce" =>
        \A i \in 1..Len(log.ret) :
            LET t == log.ret[i].target
            IN  IF log.ret[i].hand >= players[cards[t].controller].max_hand_size
                THEN DestroyQueued(t) /\ cards[t].zone # "HAND"
                ELSE ~DestroyQueued(t) /\ cards[t].zone = "HAND"

\* C10 witness: one Bounce put its first target into the last free hand slot
\* and destroyed its second target, of the same controller
C10_Witness ==
    /\ pc = "idle" /\ log.op = "Bounce" /\ Len(log.ret) = 2
    /\ cards[log.ret[1].target].controller = cards[log.ret[2].target].controller
    /\ cards[log.ret[1].target].zone = "HAND"
    /\ cards[log.ret[2].target].zone = "GRAVEYARD"
    /\ DestroyQueued(log.ret[2].target)
    /\ ~DestroyQueued(log.ret[1].target)

\* =============================================================== choices
Range(seq) == {seq[i] : i \in 1..Len(seq)}

\* GameAction.trigger lines 146-150 around GenericChoice.do lines 287-290
GenericChoiceTrigger(g, source, player, cs) ==
    /\ pc = "idle"
    /\ choices[g] = NoChoice
    /\ log' = [NewLog("GenericChoice") EXCEPT
                  !.action = 1, !.action_end = 1,
                  !.args = [self |-> g, player |-> player,
                            choice |-> players[player].choice]]
    /\ players' = [players EXCEPT ![player].choice = g]
    /\ choices' = [choices EXCEPT ![g] = [player |-> player, cards |-> cs]]
    /\ UNCHANGED <<chars, game, cards, deck, pc, frame>>

\* GenericChoice.choose line 297: "len(self.player.hand) < max_hand_size"
ChooseFitsBug(n, max) == n <= max
ChooseFits(n, max) == n < max

\* GenericChoice.choose lines 293-302: the loop over self.cards, from index i
RECURSIVE ChooseLoop(_, _, _, _, _)
ChooseLoop(st, player, cs, i, card) ==
    IF i > Len(cs) THEN st
    ELSE LET c == cs[i]
             s1 == IF c = card
                   THEN IF st.cards[card].type = "HERO_POWER"
                        THEN SetZone(st, c, "PLAY")
                        ELSE IF ChooseFits(Cardinality(hand(st.cards, player)),
                                           st.players[player].max_hand_size)
                        THEN SetZone(st, c, "HAND")
                        ELSE discard(st, c)
                   ELSE discard(st, c)
         IN  ChooseLoop(s1, player, cs, i + 1, card)

\* GenericChoice.choose lines 292-303
GenericChoiceChoose(g, card) ==
    /\ pc = "idle"
    /\ choices[g] # NoChoice
    /\ LET player == choices[g].player
           l0 == [NewLog("GenericChoice.choose") EXCEPT
                    !.args = [self |-> g, player |-> player, card |-> card,
                              choice |-> players[player].choice,
                              zones |-> [c \in Cards |-> cards[c].zone],
                              hand |-> hand(cards, player)]]
       IN  \E r \in {ChooseLoop([State EXCEPT !.log = l0], player,
                                 choices[g].cards, 1, card)} :
           /\ cards' = r.cards
           /\ deck' = r.deck
           /\ log' = r.log
           /\ players' = [r.players EXCEPT ![player].choice = None]
    /\ UNCHANGED <<chars, game, choices, pc, frame>>

\* player.hand.exclude(id="GAME_005") as a list, in a fixed order
RECURSIVE AsSeq(_)
AsSeq(S) ==
    IF S = {} THEN <<>>
    ELSE LET c == CHOOSE x \in S : TRUE
         IN  <<c>> \o AsSeq(S \ {c})

\* GameAction.trigger lines 146-150 around MulliganChoice.do lines 309-315
MulliganChoiceTrigger(m, source, player) ==
    /\ pc = "idle"
    /\ choices[m] = NoChoice
    /\ log' = [NewLog("MulliganChoice") EXCEPT
                  !.action = 1, !.action_end = 1,
                  !.args = [self |-> m, player |-> player,
                            choice |-> players[player].choice]]
    /\ players' = [players EXCEPT ![player].choice = m,
                                  ![player].mulligan_state = "INPUT"]
    /\ choices' = [choices EXCEPT ![m] =
                      [player |-> player,
                       cards |-> AsSeq({c \in hand(cards, player) :
                                          cards[c].id # "GAME_005"})]]
    /\ UNCHANGED <<chars, game, cards, deck, pc, frame>>

\* MulliganChoice.choose lines 319-321: "assert card in self.cards" and the
\* move to the deck, card by card from index i; stops at the first card that
\* fails the assertion, with log.raised set
RECURSIVE MulliganReturn(_, _, _, _)
MulliganReturn(st, offered, cs, i) ==
    IF i > Len(cs) THEN st
    ELSE IF cs[i] \notin Range(offered)
    THEN [st EXCEPT !.log.raised = "AssertionError"]
    ELSE MulliganReturn(SetZone(st, cs[i], "DECK"), offered, cs, i + 1)

\* player.draw(count) (entity layer) queues Draw(player) * count;
\* MulliganChoice.choose line 318
MulliganDraw(st, player, count) == DrawRun(st, player, player, count)

\* MulliganChoice.choose lines 317-324; player.shuffle_deck() (entity layer)
\* leaves the deck in any order
MulliganChoiceChoose(m, cs) ==
    /\ pc = "idle"
    /\ choices[m] # NoChoice
    /\ LET player == choices[m].player
           l0 == [NewLog("MulliganChoice.choose") EXCEPT
                    !.args = [self |-> m, player |-> player, chosen |-> cs,
                              choice |-> players[player].choice,
                              cards |-> cards, deck |-> deck,
                              players |-> players]]
       IN  /\ players[player].fatigue_counter + Len(cs) <= MaxFatigue
           /\ \E s1 \in {MulliganDraw([State EXCEPT !.log = l0], player, Len(cs))} :
              \E s2 \in {MulliganReturn(s1, choices[m].cards, cs, 1)} :
                /\ chars' = s2.chars
                /\ cards' = s2.cards
                /\ log' = s2.log
                /\ IF s2.log.raised # None
                   THEN /\ players' = s2.players
                        /\ deck' = s2.deck
                   ELSE /\ players' = [s2.players EXCEPT
                                         ![player].choice = None,
                                         ![player].mulligan_state = "DONE"]
                        /\ \E shuffled \in Orders(Range(s2.deck[player])) :
                              deck' = [s2.deck EXCEPT ![player] = shuffled]
    /\ UNCHANGED <<game, choices, pc, frame>>

\* GameAction.trigger lines 146-150 around EndTurn.do lines 244-248.  do
\* raises InvalidAction while a choice is open; trigger has no handler, so
\* the exception leaves it right after the pre-action hook.
EndTurnTrigger(source, player) ==
    /\ pc = "idle"
    /\ LET l0 == [NewLog("EndTurn") EXCEPT
                    !.action = 1,
                    !.args = [source |-> source, player |-> player,
                              choice |-> players[player].choice]]
       IN  IF players[player].choice # None
           THEN log' = [l0 EXCEPT !.raised = "InvalidAction"]
           ELSE log' = [Broadcast(l0, "EndTurn", source, ON, <<player>>)
                        EXCEPT !.end_turn = @ + 1, !.action_end = @ + 1]
    /\ UNCHANGED <<chars, game, players, cards, deck, choices, pc, frame>>

\* p1 holds c2 and the Coin c3; c1 is in the hand or on the deck; the hero
\* power c4 and the spell c5 are set aside, as freshly created cards are
InitChoice ==
    /\ chars = [c \in Chars |-> InitChar]
    /\ game = InitGame
    /\ \E mh \in {MaxHandSize - 1, MaxHandSize} :
          players = [p \in Players |-> [InitPlayer EXCEPT !.max_hand_size = mh]]
    /\ \E z1 \in {"HAND", "DECK"} :
          /\ cards = [c \in Cards |->
                        [InitCard EXCEPT
                           !.zone = IF c = "c1" THEN z1
                                    ELSE IF c \in {"c2", "c3"} THEN "HAND"
                                    ELSE "SETASIDE",
                           !.type = IF c = "c4" THEN "HERO_POWER" ELSE "SPELL",
                           !.id = IF c = "c3" THEN "GAME_005" ELSE "CARD"]]
          /\ deck = [p \in Players |->
                       IF p = "p1" /\ z1 = "DECK" THEN <<"c1">> ELSE <<>>]
    /\ HandsWithinLimit
    /\ choices = NoChoices
    /\ pc = "idle"
    /\ frame = NoFrame
    /\ log = NewLog(None)

\* the lists of up to MaxOffer distinct cards out of S
CardLists(S) ==
    UNION {{o \in [1..n -> S] : \A i, j \in 1..n : i # j => o[i] # o[j]} :
           n \in 0..MaxOffer}

\* what a choice may offer: the card c1 of the player and the created cards
OfferLists == CardLists({"c1", "c4", "c5"}) \ {<<>>}

NextChoice ==
    \/ \E g \in {x \in GenericChoices : choices[x] = NoChoice} :
          /\ g = "g2" => choices["g1"] # NoChoice   \* g1 names the first one
          /\ \E cs \in OfferLists : GenericChoiceTrigger(g, "p1", "p1", cs)
    \/ \E g \in GenericChoices, c \in Cards \ {"c3"} : GenericChoiceChoose(g, c)
    \/ \E m \in MulliganChoices : MulliganChoiceTrigger(m, "p1", "p1")
    \/ EndTurnTrigger("p1", "p1")

SpecChoice == InitChoice /\ [][NextChoice]_vars

\* GenericChoice.choose has returned; log.args holds its argument and the
\* state before the call
ChooseReturned == pc = "idle" /\ log.op = "GenericChoice.choose"
\* the cards the choice that was called offered
Offered == choices[log.args.self].cards

\* C2 (as claimed): choose(card) with a card the choice did not offer fails,
\* leaves every offered card in its zone and leaves the pending choice open.
C2_AsClaimed ==
    (ChooseReturned /\ log.args.card \notin Range(Offered)) =>
        /\ log.raised # None
        /\ \A c \in Range(Offered) : cards[c].zone = log.args.zones[c]
        /\ players[log.args.player].choice = log.args.choice

\* the length of the player's hand when the loop of choose reaches index i:
\* the hand before the call less the offered cards the loop passed
HandAt(i) == Cardinality(log.args.hand \ {Offered[j] : j \in 1..(i - 1)})

\* C3: after choose(B) for an offered B: B is in PLAY if it is a hero power,
\* otherwise in HAND if the player's hand was below max_hand_size when the
\* loop reached B and discarded if it was full; every other offered card is
\* discarded; player.choice is None.
C3_Choose ==
    (ChooseReturned /\ log.args.card \in Range(Offered)) =>
        LET B == log.args.card
            p == log.args.player
            i == CHOOSE k \in 1..Len(Offered) : Offered[k] = B
        IN  /\ cards[B].zone =
                  IF cards[B].type = "HERO_POWER" THEN "PLAY"
                  ELSE IF HandAt(i) < players[p].max_hand_size THEN "HAND"
                  ELSE "GRAVEYARD"
            /\ \A c \in Range(Offered) \ {B} : cards[c].zone = "GRAVEYARD"
            /\ players[p].choice = None
            /\ log.raised = None

\* C3 witness: out of two offered cards the chosen one, newly created, went
\* to the hand and the other one was discarded
C3_Witness ==
    /\ ChooseReturned /\ Len(Offered) = 2
    /\ log.args.card \in Range(Offered)
    /\ log.args.zones[log.args.card] = "SETASIDE"
    /\ cards[log.args.card].zone = "HAND"
    /\ \E c \in Range(Offered) \ {log.args.card} :
          log.args.zones[c] # "GRAVEYARD" /\ cards[c].zone = "GRAVEYARD"
    /\ players[log.args.player].choice = None

\* C4 (as claimed): EndTurn triggered while the player's choice is open
\* raises InvalidAction and leaves the engine as it was: no ON broadcast, no
\* game._end_turn, the choice still open, and as many post-action hook calls
\* as pre-action hook calls.
C4_AsClaimed ==
    (log.op = "EndTurn" /\ log.args.choice # None) =>
        /\ log.raised = "InvalidAction"
        /\ log.bcasts = <<>>
        /\ log.end_turn = 0
        /\ players[log.args.player].choice = log.args.choice
        /\ log.action_end = log.action

\* C5 (as claimed): opening a choice never replaces a choice that is still
\* open, and choose on a choice that is not the pending one leaves
\* player.choice as it is.
C5_AsClaimed ==
    /\ log.op \in {"GenericChoice", "MulliganChoice"} => log.args.choice = None
    /\ (/\ log.op \in {"GenericChoice.choose", "MulliganChoice.choose"}
        /\ log.args.choice # log.args.self)
          => players[log.args.player].choice = log.args.choice

\* ------------------------------------------------------------- mulligan
\* p1 holds c1, c2 and perhaps the Coin c3; c4 and c5 are on the deck or not
\* in the game
InitMulligan ==
    /\ chars = [c \in Chars |-> InitChar]
    /\ game = InitGame
    /\ \E mh \in {MaxHandSize, MaxHandSize + 2} :
          players = [p \in Players |-> [InitPlayer EXCEPT !.max_hand_size = mh]]
    /\ \E z3 \in {"HAND", "SETASIDE"}, D \in SUBSET {"c4", "c5"} :
          /\ cards = [c \in Cards |->
                        [InitCard EXCEPT
                           !.zone = IF c \in {"c1", "c2"} THEN "HAND"
                                    ELSE IF c = "c3" THEN z3
                                    ELSE IF c \in D THEN "DECK" ELSE "SETASIDE",
                           !.id = IF c = "c3" THEN "GAME_005" ELSE "CARD"]]
          /\ \E o \in Orders(D) :
                deck = [p \in Players |-> IF p = "p1" THEN o ELSE <<>>]
    /\ HandsWithinLimit
    /\ choices = NoChoices
    /\ pc = "idle"
    /\ frame = NoFrame
    /\ log = NewLog(None)

ChooseLists == CardLists(Cards)

NextMulligan ==
    \/ \E m \in MulliganChoices : MulliganChoiceTrigger(m, "p1", "p1")
    \/ \E m \in {x \in MulliganChoices : choices[x] # NoChoice} :
          \E cs \in ChooseLists : MulliganChoiceChoose(m, cs)

SpecMulligan == InitMulligan /\ [][NextMulligan]_vars

MulliganReturned == pc = "idle" /\ log.op = "MulliganChoice.choose"

\* what choose(*cards) does for cards that were all offered
MulliganDone ==
    LET p == log.args.player
    IN  /\ log.raised = None
        /\ Len(log.ret) = Len(log.args.chosen)
        /\ \A c \in Range(log.args.chosen) :
              cards[c].zone = "DECK" /\ c \in Range(deck[p])
        /\ players[p].choice = None
        /\ players[p].mulligan_state = "DONE"

\* what the claim says of a choose(*cards) with a card that was not offered
MulliganUntouched ==
    /\ log.raised # None
    /\ log.ret = <<>>
    /\ cards = log.args.cards
    /\ deck = log.args.deck
    /\ players = log.args.players

\* C6 (as claimed): MulliganChoice.choose(*cards) with offered cards draws
\* len(cards) times, puts every chosen card on the deck, clears player.choice
\* and sets mulligan_state to DONE; with a card that was not offered it
\* fails and none of these changes, the draws included, has happened.
C6_AsClaimed ==
    MulliganReturned =>
        IF Range(log.args.chosen) \subseteq Range(Offered)
        THEN MulliganDone
        ELSE MulliganUntouched

\* ================================================================ attack
\* GameAction.trigger lines 146-148 and Attack.do lines 164-169: the proposed
\* pair is set up and the ON broadcast starts.
AttackTrigger(source, attacker, defender) ==
    /\ pc = "idle"
    /\ attacker # defender
    /\ chars["m1"].num_attacks + chars["m2"].num_attacks < MaxAttacks
    /\ chars' = [chars EXCEPT ![attacker].attack_target = defender,
                              ![defender].defending = TRUE]
    /\ game' = [game EXCEPT !.proposed_attacker = attacker,
                            !.proposed_defender = defender]
    /\ log' = Broadcast([NewLog("Attack") EXCEPT
                            !.action = 1,
                            !.args = [source |-> source, attacker |-> attacker,
                                      defender |-> defender,
                                      num_attacks |-> chars[attacker].num_attacks]],
                        "Attack", source, ON, <<attacker, defender>>)
    /\ pc' = "Attack.on"
    /\ frame' = [op |-> "Attack", source |-> source, attacker |-> attacker]
    /\ UNCHANGED <<players, cards, deck, choices>>

\* A reaction to the Attack ON broadcast (card scripts, entity layer) takes
\* the attacker out of combat: should_exit_combat becomes true.
AttackOnExitCombat ==
    /\ pc = "Attack.on"
    /\ ~chars[frame.attacker].should_exit_combat
    /\ chars' = [chars EXCEPT ![frame.attacker].should_exit_combat = TRUE]
    /\ log' = [log EXCEPT !.written = <<"should_exit_combat">>]
    /\ UNCHANGED <<game, players, cards, deck, choices, pc, frame>>

\* Retarget.do lines 908-921 run by a listener of the Attack ON broadcast on
\* the attacking character: the proposed defender is replaced.
RetargetDo(new_target) ==
    /\ pc = "Attack.on"
    /\ chars[frame.attacker].attack_target # None
    /\ new_target # game.proposed_defender
    /\ Len(SelectSeq(log.queued, LAMBDA q : q.kind = "Retarget")) < MaxRetargets
    /\ chars' = [chars EXCEPT ![game.proposed_defender].defending = FALSE]
    /\ game' = [game EXCEPT !.proposed_defender = new_target]
    /\ log' = Queue(log, "Retarget", frame.source, <<frame.attacker, new_target>>)
    /\ UNCHANGED <<players, cards, deck, choices, pc, frame>>

\* Attack.do line 174: "if attacker.should_exit_combat"
AttackExitsBug(c) == FALSE
AttackExits(c) == c.should_exit_combat

\* Attack.do lines 171-193 and GameAction.trigger lines 149-150, once the ON
\* broadcast is over.  (process_deaths sweeps nobody: no character here
\* reaches lethal damage.)
AttackResolve ==
    /\ pc = "Attack.on"
    /\ LET attacker == frame.attacker
           defender == game.proposed_defender
           def_atk == chars[defender].atk
           st0 == [chars |-> chars, log |-> log]
           h1 == HitRun(st0, attacker, defender, chars[attacker].atk)
           h2 == IF def_atk # 0
                 THEN HitRun([chars |-> h1.chars, log |-> h1.log],
                             defender, attacker, def_atk)
                 ELSE h1
       IN  /\ game' = [game EXCEPT !.proposed_attacker = None,
                                   !.proposed_defender = None]
           /\ IF AttackExits(chars[attacker])
              THEN /\ chars' = [chars EXCEPT ![attacker].attack_target = None,
                                            ![defender].defending = FALSE]
                   /\ log' = [log EXCEPT !.action_end = @ + 1]
              ELSE IF attacker = defender
              THEN /\ chars' = chars
                   /\ log' = [log EXCEPT !.raised = "AssertionError"]
              ELSE /\ chars' = [h2.chars EXCEPT
                                  ![attacker].attack_target = None,
                                  ![defender].defending = FALSE,
                                  ![attacker].num_attacks = @ + 1]
                   /\ log' = [Broadcast(h2.log, "Attack", frame.source, AFTER,
                                        <<attacker, defender>>)
                              EXCEPT !.action_end = @ + 1]
    /\ pc' = "idle"
    /\ frame' = NoFrame
    /\ UNCHANGED <<players, cards, deck, choices>>

InitAttack ==
    /\ \E a \in [Minions -> 0..MaxAtk] :
          chars = [c \in Chars |->
                     [InitChar EXCEPT !.atk = IF c \in Minions THEN a[c] ELSE 0]]
    /\ game = InitGame
    /\ players = NoPlayers
    /\ cards = NoCards
    /\ deck = NoDecks
    /\ choices = NoChoices
    /\ pc = "idle"
    /\ frame = NoFrame
    /\ log = NewLog(None)

NextAttack ==
    \/ \E a \in Minions, d \in Chars : AttackTrigger("p1", a, d)
    \/ AttackOnExitCombat
    \/ \E n \in Chars : RetargetDo(n)
    \/ AttackResolve

SpecAttack == InitAttack /\ [][NextAttack]_vars

\* An Attack has returned normally; log.args holds its arguments
AttackReturned == pc = "idle" /\ log.op = "Attack" /\ log.raised = None

\* C1: when Attack(X, Y) returns and X.should_exit_combat was set by the
\* time the ON broadcast ended, no Hit has been queued for either side,
\* X.attack_target is None, no defender (proposed or retargeted) is still
\* defending, and the game's proposed attacker / defender are None.
C1_AttackAbort ==
    (AttackReturned /\ chars[log.args.attacker].should_exit_combat) =>
        /\ \A i \in 1..Len(log.queued) : log.queued[i].kind # "Hit"
        /\ chars[log.args.attacker].attack_target = None
        /\ \A c \in Chars : ~chars[c].defending
        /\ game.proposed_attacker = None
        /\ game.proposed_defender = None
        /\ log.hits = <<>>
        /\ chars[log.args.attacker].num_attacks = log.args.num_attacks

\* C1 witness: a listener set should_exit_combat during the ON broadcast of
\* an Attack whose attacker has atk > 0, and the Attack returned
C1_Witness ==
    /\ AttackReturned
    /\ log.written = <<"should_exit_combat">>
    /\ chars[log.args.attacker].atk > 0
    /\ chars[log.args.attacker].should_exit_combat
    /\ log.queued = <<>>


\* ================================================ listeners and broadcasts
\* In the specifications below `cards` holds the entities with their
\* listener lists, `players` the play bookkeeping of each player, `frame`
\* the event_queue of every Action instance and `log` the trace of the
\* running top-level trigger.

\* the order in which game.entities / game.hands list the cards
CardOrder == <<"c1", "c2", "c3", "c4", "c5">>

\* an entity with the fields the catalog reads and writes
InitEntity ==
    [ zone |-> "SETASIDE", controller |-> "p1", type |-> "MINION",
      id |-> "CARD", events |-> <<>>, silenced |-> FALSE,
      cant_play |-> FALSE, morphed |-> None, cost |-> 1, play |-> <<>>,
      target |-> None ]

\* player fields that Play.do writes
InitPlaying ==
    [ mana |-> MaxMana, combo |-> FALSE, last_card_played |-> None,
      cards_played_this_turn |-> 0, minions_played_this_turn |-> 0 ]

\* selectors of the card DSL that the model's patterns and targets use
Selectors == {"SELF", "CONTROLLER", "MINION", "NOTHING"}

\* Action.__init__ lines 55-60 / TargetedAction.__init__ lines 430-433: the
\* Action instances that listeners and callers hold
ActionDefs ==
    [ sumA  |-> [kind |-> "Summon",  args |-> <<"p1", <<"c4">>>>,
                 source |-> None, callback |-> <<>>, times |-> 1],
      sumB  |-> [kind |-> "Summon",  args |-> <<"p1", <<"c5">>>>,
                 source |-> None, callback |-> <<>>, times |-> 1],
      silS  |-> [kind |-> "Silence", args |-> <<"SELF">>,
                 source |-> None, callback |-> <<>>, times |-> 1],
      silM  |-> [kind |-> "Silence", args |-> <<"MINION">>,
                 source |-> None, callback |-> <<"cntP", "cntN">>, times |-> 1],
      cnt1  |-> [kind |-> "Counter", args |-> <<"c1">>,
                 source |-> None, callback |-> <<>>, times |-> 1],
      cntM  |-> [kind |-> "Counter", args |-> <<"MINION">>,
                 source |-> None, callback |-> <<"sumA", "silS">>,
                 times |-> MaxTimes],
      cntP  |-> [kind |-> "Counter", args |-> <<"MINION">>,
                 source |-> None, callback |-> <<>>, times |-> MaxTimes],
      cntN  |-> [kind |-> "Counter", args |-> <<"NOTHING">>,
                 source |-> None, callback |-> <<"sumA">>, times |-> MaxTimes],
      cntR  |-> [kind |-> "Counter", args |-> <<"MINION">>,
                 source |-> "MINION", callback |-> <<>>, times |-> 1],
      mrph  |-> [kind |-> "Morph",   args |-> <<"SELF", <<"c5">>>>,
                 source |-> None, callback |-> <<>>, times |-> 1] ]

ActionIds == DOMAIN ActionDefs

\* the Action instances that own an event_queue in the model: the ones
\* above and the Play instance the caller submits
QueueOwners == ActionIds \cup {"play"}

\* Action.__init__ line 60: every instance starts with its own empty list;
\* lists is the heap of list objects, eq the list each instance refers to
OwnerOrder ==
    <<"sumA", "sumB", "silS", "silM", "cnt1", "cntM", "cntP", "cntN", "cntR",
      "mrph", "play">>

IndexOf(seq, x) == CHOOSE i \in 1..Len(seq) : seq[i] = x

InitQueues ==
    [ eq |-> [a \in QueueOwners |-> IndexOf(OwnerOrder, a)],
      lists |-> [i \in 1..Len(OwnerOrder) |-> <<>>] ]

\* list objects no instance refers to any more are dropped
Compact(f) ==
    [ eq |-> [a \in QueueOwners |-> IndexOf(OwnerOrder, a)],
      lists |-> [i \in 1..Len(OwnerOrder) |-> f.lists[f.eq[OwnerOrder[i]]]] ]

\* the trace of one top-level trigger: ev is the sequence of what happened,
\* n counts the broadcasts and deferred records made so far
NewTrace(op, args) ==
    [op |-> op, ev |-> <<>>, raised |-> None, ret |-> <<>>, args |-> args,
     n |-> 0]

\* one entry of the trace
Ev(e, kind, at, args, by, n) ==
    [e |-> e, kind |-> kind, at |-> at, args |-> args, by |-> by, n |-> n]

\* the state the broadcaster and the triggers thread; running is TRUE until
\* an exception leaves the trigger
Engine ==
    [cards |-> cards, players |-> players, frame |-> frame, log |-> log,
     depth |-> 0, rv |-> <<>>, running |-> TRUE]

Trace(es, e) == [es EXCEPT !.log.ev = Append(@, e)]

\* an exception leaves the running trigger and every caller of it
Raise(es, exc) == [es EXCEPT !.log.raised = exc, !.running = FALSE]

\* game.entities: the cards in play; game.hands: the cards in the hands
InZone(es, z) == SelectSeq(CardOrder, LAMBDA c : es.cards[c].zone = z)

controller(es, x) == IF x \in Players THEN x ELSE es.cards[x].controller

\* Selector.eval(pool, source)
SelEval(es, sel, pool, source) ==
    CASE sel = "SELF" -> <<source>>
      [] sel = "CONTROLLER" -> <<controller(es, source)>>
      [] sel = "MINION" ->
            SelectSeq(pool, LAMBDA x : x \in Cards /\ es.cards[x].type = "MINION")
      [] OTHER -> <<>>

Min(a, b) == IF a < b THEN a ELSE b

\* what "res[0] is not arg" compares: the objects themselves
SameBug(es, x, y) ==
    x \in Cards /\ y \in Cards /\ es.cards[x].id = es.cards[y].id
Same(es, x, y) == x = y

\* Action.matches lines 108-120: the loop over zip(args, self._args), from
\* position i
RECURSIVE MatchesFrom(_, _, _, _, _)
MatchesFrom(es, pattern, source, args, i) ==
    IF i > Min(Len(pattern), Len(args)) THEN TRUE
    ELSE IF pattern[i] = None THEN MatchesFrom(es, pattern, source, args, i + 1)
    ELSE IF args[i] = None THEN FALSE
    ELSE LET res == SelEval(es, pattern[i], <<args[i]>>, source)
         IN  IF res = <<>> \/ ~Same(es, res[1], args[i])
             THEN FALSE
             ELSE MatchesFrom(es, pattern, source, args, i + 1)

matches(es, pattern, source, args) == MatchesFrom(es, pattern, source, args, 1)

\* isinstance(event.trigger, self.__class__), line 86: no action class of the
\* catalog derives from another one
IsInstance(kind, cls) == kind = cls

\* Play._broadcast lines 334-338 and Summon._broadcast lines 997-1001: the
\* entity that is args[1] is skipped
SkipsBug(kind, entity, args) == FALSE
Skips(kind, entity, args) ==
    kind \in {"Play", "Summon"} /\ Len(args) >= 2 /\ entity = args[2]

\* ------------------------------------------------ broadcaster and triggers
RECURSIVE EntitiesLoop(_, _, _, _, _, _, _, _)
RECURSIVE EventsLoop(_, _, _, _, _, _, _, _, _)
RECURSIVE queue_actions(_, _, _, _, _)
RECURSIVE trigger(_, _, _)
RECURSIVE Repetitions(_, _, _, _, _, _)
RECURSIVE TargetsLoop(_, _, _, _, _, _, _, _)
RECURSIVE Callbacks(_, _, _, _, _, _, _, _)
RECURSIVE ResolveLoop(_, _, _)
RECURSIVE SummonLoop(_, _, _, _, _, _)

\* statement sequencing: the rest F runs on the state the step e left,
\* unless the step raised
Bind(e, F(_)) == IF e.running THEN F(e) ELSE e

\* entity.trigger_event(source, event, args) (entity layer): the listener's
\* response actions go to the manager with the listener's owner as source
trigger_event(es, kind, entity, event, args, n) ==
    queue_actions(Trace(es, Ev("fire", kind, event.at, args, entity, n)),
                  entity, event.actions, 1, <<>>)

\* Action._broadcast lines 82-88: the loop over entity.events, from index j;
\* events is the list object the loop started on
EventsLoop(es, kind, entity, source, at, args, n, events, j) ==
    IF j > Len(events) THEN es
    ELSE LET event == events[j]
             fires == /\ event.at = at
                      /\ IsInstance(event.trigger.kind, kind)
                      /\ matches(es, event.trigger.args, entity, args)
         IN  Bind(IF fires
                  THEN trigger_event(es, kind, entity, event, args, n)
                  ELSE es,
                  LAMBDA e1 : EventsLoop(e1, kind, entity, source, at, args, n,
                                         events, j + 1))

\* self._broadcast(entity, source, at, *args) with the overrides of Play and
\* Summon
broadcast_entity(es, kind, entity, source, at, args, n) ==
    IF Skips(kind, entity, args) THEN es
    ELSE EventsLoop(es, kind, entity, source, at, args, n,
                    es.cards[entity].events, 1)

\* Action.broadcast lines 91-92 / 94-95: one of the two loops, from index i
EntitiesLoop(es, kind, source, at, args, n, entities, i) ==
    IF i > Len(entities) THEN es
    ELSE Bind(broadcast_entity(es, kind, entities[i], source, at, args, n),
              LAMBDA e1 : EntitiesLoop(e1, kind, source, at, args, n, entities,
                                       i + 1))

\* Action.broadcast lines 90-95: game.entities first, then game.hands
broadcast(es, kind, source, at, args) ==
    LET n == es.log.n + 1
        e0 == Trace([es EXCEPT !.log.n = n],
                    Ev("bcast", kind, at, args, source, n))
        entities == InZone(e0, "PLAY")
    IN  Bind(EntitiesLoop(Trace(e0, Ev("entities", kind, at, entities,
                                       source, n)),
                          kind, source, at, args, n, entities, 1),
             LAMBDA e1 :
                 EntitiesLoop(Trace(e1, Ev("entities", kind, at,
                                           InZone(e1, "HAND"), source, n)),
                              kind, source, at, args, n,
                              InZone(e1, "HAND"), 1))

\* Action.queue_broadcast lines 97-98: a record is appended to the list the
\* instance refers to; obj is the action whose broadcast will deliver it
queue_broadcast(es, a, obj, source, at, args) ==
    LET n == es.log.n + 1
        rec == [kind |-> obj, source |-> source, at |-> at, args |-> args,
                n |-> n]
        e0 == [es EXCEPT !.log.n = n,
                         !.frame.lists[es.frame.eq[a]] = Append(@, rec)]
    IN  Trace(e0, Ev("defer", obj, at, args, a, n))

\* Action.resolve_broadcasts line 101-102: the loop over the list object l,
\* from index i; records appended to l meanwhile are reached too
ResolveLoop(es, l, i) ==
    IF i > Len(es.frame.lists[l]) THEN es
    ELSE LET rec == es.frame.lists[l][i]
             e0 == Trace(es, Ev("deliver", rec.kind, rec.at, rec.args,
                                rec.source, rec.n))
         IN  Bind(broadcast(e0, rec.kind, rec.source, rec.at, rec.args),
                  LAMBDA e1 : ResolveLoop(e1, l, i + 1))

\* Action.resolve_broadcasts lines 100-103: after the loop the instance
\* refers to a new empty list
resolve_broadcasts(es, a) ==
    Bind(ResolveLoop(es, es.frame.eq[a], 1),
         LAMBDA e1 : [e1 EXCEPT !.frame.lists = Append(@, <<>>),
                                !.frame.eq[a] = Len(e1.frame.lists) + 1])

\* card.is_summonable() (entity layer): the controller's field has room
is_summonable(es, c) ==
    Cardinality({x \in Cards :
                    /\ es.cards[x].zone = "PLAY"
                    /\ es.cards[x].type = "MINION"
                    /\ es.cards[x].controller = es.cards[c].controller}) < MaxField

\* Summon.do lines 1003-1021: the loop over cards, from index k; the cards
\* are what do returns
SummonLoop(es, a, source, target, cs, k) ==
    IF k > Len(cs) THEN [es EXCEPT !.rv = cs]
    ELSE LET card == cs[k]
         IN  IF ~is_summonable(es, card)
             THEN SummonLoop(es, a, source, target, cs, k + 1)
             ELSE LET e1 == [es EXCEPT !.cards[card].controller = target,
                                       !.cards[card].zone = "PLAY"]
                      e2 == queue_broadcast(e1, a, "Summon", source, ON,
                                            <<target, card>>)
                  IN  Bind(broadcast(e2, "Summon", source, AFTER,
                                     <<target, card>>),
                           LAMBDA e3 : SummonLoop(e3, a, source, target, cs,
                                                  k + 1))

\* "target._events = []", Silence.do line 986
WipedBug(events) == events
Wiped(events) == <<>>

\* Silence.do lines 979-987
SilenceDo(es, a, source, target) ==
    Bind(broadcast(es, "Silence", source, ON, <<target>>),
         LAMBDA e1 : Trace([e1 EXCEPT !.cards[target].events = Wiped(@),
                                      !.cards[target].silenced = TRUE,
                                      !.rv = None],
                           Ev("silenced", a, 0, <<target>>, source, 0)))

\* Counter.do lines 565-566
CounterDo(es, a, source, target) ==
    [es EXCEPT !.cards[target].cant_play = TRUE, !.rv = None]

\* Morph.get_target_args lines 878-883 and Morph.do lines 885-894
MorphDo(es, a, source, target, cs) ==
    IF Len(cs) # 1 THEN Raise(es, "AssertionError")
    ELSE LET card == cs[1]
             target_zone == es.cards[target].zone
         IN  [es EXCEPT !.cards[card].controller = es.cards[target].controller,
                        !.cards[target].zone = "SETASIDE",
                        !.cards[card].zone = target_zone,
                        !.cards[target].morphed = card,
                        !.rv = card]

\* self.do(source, target, *target_args) of the instance a
Do(es, a, source, target) ==
    LET d == ActionDefs[a]
    IN  CASE d.kind = "Summon"  -> SummonLoop(es, a, source, target, d.args[2], 1)
          [] d.kind = "Silence" -> SilenceDo(es, a, source, target)
          [] d.kind = "Counter" -> CounterDo(es, a, source, target)
          [] d.kind = "Morph"   -> MorphDo(es, a, source, target, d.args[2])

\* TargetedAction.get_targets lines 463-475
get_targets(es, source, t) ==
    IF t \in Cards \cup Players THEN <<t>>
    ELSE SelEval(es, t, InZone(es, "PLAY"), source)

\* TargetedAction.trigger lines 502-504: the loop over self.callback, from
\* index k; what queue_actions returns is added to ret
CallbacksBug(es, a, source, i, target, act, k, ret) == [es EXCEPT !.rv = ret]
Callbacks(es, a, source, i, target, act, k, ret) ==
    LET cb == ActionDefs[a].callback
    IN  IF k > Len(cb) THEN [es EXCEPT !.rv = ret]
        ELSE LET e0 == Trace(es, Ev("callback", a, i, <<cb[k], target>>, source, act))
             IN  Bind(queue_actions(e0, source, <<cb[k]>>, 1, <<>>),
                      LAMBDA e1 : Callbacks(e1, a, source, i, target, act,
                                            k + 1, ret \o e1.rv))

\* TargetedAction.trigger lines 498-504: the loop over targets, from index j
TargetsLoop(es, a, source, i, targets, act, j, ret) ==
    IF j > Len(targets) THEN [es EXCEPT !.rv = ret]
    ELSE LET e0 == Trace(es, Ev("do", a, i, <<targets[j]>>, source, act))
         IN  Bind(Do(e0, a, source, targets[j]),
                  LAMBDA e1 :
                      Bind(Callbacks(Trace(e1, Ev("result", a, i,
                                                  <<targets[j], e1.rv>>,
                                                  source, act)),
                                     a, source, i, targets[j], act, 1,
                                     Append(ret, e1.rv)),
                           LAMBDA e2 : TargetsLoop(e2, a, source, i, targets,
                                                   act, j + 1, e2.rv)))

\* "for i in range(times)", TargetedAction.trigger line 491: the number of
\* repetitions
RepsBug(times) == times + 1
Reps(times) == times

\* TargetedAction.trigger lines 491-506: the loop over range(times), from
\* repetition i
Repetitions(es, a, source, act, i, ret) ==
    IF i >= Reps(ActionDefs[a].times) THEN [es EXCEPT !.rv = ret]
    ELSE LET targets == get_targets(es, source, ActionDefs[a].args[1])
             e0 == Trace(es, Ev("action", a, i, targets, source, act))
         IN  Bind(TargetsLoop(e0, a, source, i, targets, act, 1, ret),
                  LAMBDA e1 :
                      Repetitions(Trace(e1, Ev("action_end", a, i, targets,
                                               source, act)),
                                  a, source, act, i + 1, e1.rv))

\* TargetedAction.trigger lines 477-510
trigger(es, a, source) ==
    LET d == ActionDefs[a]
        sources == IF d.source = None THEN <<source>>
                   ELSE SelEval(es, d.source, InZone(es, "PLAY"), source)
    IN  IF Len(sources) # 1 THEN Raise(es, "AssertionError")
        ELSE LET act == es.log.n + 1
                 e0 == Trace([es EXCEPT !.log.n = act],
                             Ev("trigger", a, 0, <<>>, sources[1], act))
             IN  Bind(Repetitions(e0, a, sources[1], act, 0, <<>>),
                      LAMBDA e1 :
                          Bind(resolve_broadcasts(e1, a),
                               LAMBDA e2 :
                                   [Trace(e2, Ev("return", a, 0, e1.rv,
                                                 sources[1], act))
                                       EXCEPT !.rv = e1.rv]))

\* game.queue_actions(source, actions) (queue manager, synchronous): every
\* action is triggered in turn, from index i; the results are collected.
\* A chain of reactions deeper than MaxDepth ends as Python's recursion
\* limit ends it.
queue_actions(es, source, actions, i, rets) ==
    IF i > Len(actions) THEN [es EXCEPT !.rv = rets]
    ELSE IF es.depth >= MaxDepth THEN Raise(es, "RecursionError")
    ELSE Bind(trigger([es EXCEPT !.depth = @ + 1], actions[i], source),
              LAMBDA e1 : queue_actions([e1 EXCEPT !.depth = es.depth], source,
                                        actions, i + 1, Append(rets, e1.rv)))

\* ------------------------------------------------------- Play / Battlecry
\* Battlecry.do lines 637-661 for a card without target requirement, combo
\* or overload: the card's play actions go to the manager
BattlecryDo(es, source, card, target) ==
    LET actions == es.cards[card].play
    IN  IF actions # <<>>
        THEN queue_actions([es EXCEPT !.cards[source].target = target],
                           source, actions, 1, <<>>)
        ELSE es

\* game.queue_actions(card, [Battlecry(card, target)]), Play.do line 367:
\* TargetedAction.trigger lines 477-510 of the new Battlecry instance
BattlecryTrigger(es, source, card, target) ==
    IF es.depth >= MaxDepth THEN Raise(es, "RecursionError")
    ELSE LET act == es.log.n + 1
             e0 == Trace([es EXCEPT !.log.n = act, !.depth = @ + 1],
                         Ev("trigger", "Battlecry", 0, <<card, target>>, source, act))
             e1 == Trace(e0, Ev("action", "Battlecry", 0, <<card>>, source, act))
             e2 == Trace(e1, Ev("do", "Battlecry", 0, <<card>>, source, act))
         IN  Bind(BattlecryDo(e2, source, card, target),
                  LAMBDA e3 :
                      Trace(Trace([e3 EXCEPT !.depth = es.depth],
                                  Ev("action_end", "Battlecry", 0, <<card>>,
                                     source, act)),
                            Ev("return", "Battlecry", 0, <<>>, source, act)))

\* Play.do lines 375-379: the bookkeeping after the broadcasts
PlayedBug(es, player, card) == es
Played(es, player, card) ==
    [es EXCEPT
        !.players[player].combo = TRUE,
        !.players[player].last_card_played = card,
        !.players[player].cards_played_this_turn = @ + 1,
        !.players[player].minions_played_this_turn =
            IF es.cards[card].type = "MINION" THEN @ + 1 ELSE @,
        !.cards[card].target = None]

\* Play.do lines 371-374: the morph result stands for a morphed card
played_minion(es, card) ==
    IF es.cards[card].morphed # None THEN es.cards[card].morphed ELSE card

\* Play.do lines 365-376: the part a countered card skips
PlayResolve(es, player, card, target) ==
    Bind(BattlecryTrigger(
             Trace(es, Ev("queue", "Battlecry", 0,
                          <<card, es.cards[card].target>>, card, 0)),
             card, card, es.cards[card].target),
         LAMBDA e1 :
             Bind(broadcast(e1, "Summon", player, AFTER,
                            <<player, played_minion(e1, card)>>),
                  LAMBDA e2 :
                      broadcast(e2, "Play", player, AFTER,
                                <<player, played_minion(e1, card), target>>)))

\* "if not card.cant_play", Play.do line 365
CounteredBug(c) == FALSE
Countered(c) == c.cant_play

\* the trace notes what the test of card.cant_play on line 365 reads
Tested(es, player, card) ==
    Trace(es, Ev("cant_play", "Play", 0, <<card, es.cards[card].cant_play>>,
                 player, 0))

\* Play.do lines 343-382; pay_mana is the player's (entity layer)
PlayDo(es, player, card, target) ==
    LET e1 == Trace([es EXCEPT !.players[player].mana = @ - es.cards[card].cost,
                               !.cards[card].target = target,
                               !.cards[card].zone = "PLAY"],
                    Ev("zone", "Play", 0, <<card, "PLAY">>, player, 0))
        e2 == queue_broadcast(e1, "play", "Summon", player, ON, <<player, card>>)
    IN  Bind(broadcast(e2, "Play", player, ON, <<player, card, target>>),
             LAMBDA e3 :
                 Bind(resolve_broadcasts(e3, "play"),
                      LAMBDA e4 :
                          Bind(IF Countered(e4.cards[card])
                               THEN Tested(e4, player, card)
                               ELSE PlayResolve(Tested(e4, player, card),
                                                player, card, target),
                               LAMBDA e5 : Played(e5, player, card))))

\* GameAction.trigger lines 145-150 around Play.do, for a new Play instance
PlayRun(es, player, card, target) ==
    LET e0 == Trace([es EXCEPT !.frame.lists[es.frame.eq["play"]] = <<>>],
                    Ev("action", "Play", 0, <<player, card, target>>, player, 0))
    IN  Bind(PlayDo(e0, player, card, target),
             LAMBDA e1 : Trace(e1, Ev("action_end", "Play", 0,
                                      <<player, card, target>>, player, 0)))

\* the caller submits Play(card, target) for the player
PlayTrigger(player, card, target) ==
    /\ pc = "idle"
    /\ log.raised = None
    /\ cards[card].zone = "HAND"
    /\ cards[card].controller = player
    /\ players[player].mana >= cards[card].cost
    /\ \E r \in {PlayRun([Engine EXCEPT !.log =
                            NewTrace("Play", [player |-> player, card |-> card,
                                              target |-> target,
                                              cards |-> cards,
                                              players |-> players])],
                         player, card, target)} :
          /\ cards' = r.cards
          /\ players' = r.players
          /\ frame' = Compact(r.frame)
          /\ log' = r.log
    /\ UNCHANGED <<chars, game, deck, choices, pc>>

\* the caller submits the Action instance a with the given source entity
ActionTrigger(a, source) ==
    /\ pc = "idle"
    /\ log.raised = None
    /\ source \in Cards => cards[source].zone = "PLAY"
    /\ \E r \in {trigger([Engine EXCEPT !.log =
                            NewTrace("trigger", [action |-> a, source |-> source,
                                                 cards |-> cards,
                                                 players |-> players])],
                         a, source)} :
          /\ cards' = r.cards
          /\ players' = r.players
          /\ frame' = Compact(r.frame)
          /\ log' = [r.log EXCEPT !.ret = r.rv]
    /\ UNCHANGED <<chars, game, deck, choices, pc>>

\* ------------------------------------------------- the event specification
\* EventListener.__init__ lines 42-46
Listener(kind, args, at, actions) ==
    [trigger |-> [kind |-> kind, args |-> args], at |-> at, actions |-> actions]

\* listeners the card scripts register (card-scripting layer)
Reacting ==
    { Listener("Summon", <<"CONTROLLER", "MINION">>, ON, <<"silS", "sumA">>),
      Listener("Summon", <<None, None>>, AFTER, <<"silS", "sumB">>),
      Listener("Summon", <<None, None>>, ON, <<"cnt1">>),
      Listener("Play", <<"CONTROLLER", "MINION">>, ON, <<"cnt1">>),
      Listener("Play", <<None, None, None>>, AFTER, <<"silS">>),
      Listener("Silence", <<"SELF">>, ON, <<"sumA">>) }

\* listeners on the card's own play and summon
OnSelf ==
    { Listener("Play", <<None, "SELF">>, ON, <<"cnt1">>),
      Listener("Play", <<None, "SELF">>, AFTER, <<"cnt1">>),
      Listener("Summon", <<"CONTROLLER", "SELF">>, ON, <<"cnt1">>),
      Listener("Summon", <<None, None>>, AFTER, <<"cnt1">>) }

EventLists(S) == {<<>>} \cup {<<l>> : l \in S}

InitEvent ==
    /\ chars = [c \in Chars |-> InitChar]
    /\ game = InitGame
    /\ deck = NoDecks
    /\ choices = NoChoices
    /\ pc = "idle"
    /\ players = [p \in Players |-> InitPlaying]
    /\ frame = InitQueues
    /\ log = NewTrace(None, <<>>)
    /\ \E e1 \in EventLists(OnSelf), e2 \in EventLists(Reacting),
          e3 \in EventLists({l \in OnSelf :
                                 l.at = AFTER /\ l.trigger.kind = "Summon"}),
          e4 \in EventLists({l \in OnSelf :
                                 l.at = AFTER /\ l.trigger.kind = "Play"}),
          pl \in {<<>>, <<"mrph">>}, t1 \in {"MINION", "SPELL"},
          t3 \in {"MINION", "SPELL"} :
          cards = [c \in Cards |->
                     CASE c = "c1" -> [InitEntity EXCEPT !.zone = "HAND",
                                          !.events = e1, !.play = pl,
                                          !.type = t1]
                       [] c = "c2" -> [InitEntity EXCEPT !.zone = "PLAY",
                                          !.events = e2]
                       [] c = "c3" -> [InitEntity EXCEPT !.zone = "PLAY",
                                          !.events = e3, !.type = t3]
                       [] c = "c4" -> [InitEntity EXCEPT !.events = e4]
                       [] OTHER    -> [InitEntity EXCEPT !.events = e4]]

NextEvent ==
    \/ \E card \in {c \in Cards : cards[c].zone = "HAND"}, target \in {None, "c2"} :
          PlayTrigger("p1", card, target)
    \/ \E a \in {"sumA", "silS"}, source \in {"c2", "c3"} :
          ActionTrigger(a, source)

SpecEvent == InitEvent /\ [][NextEvent]_vars

\* ------------------------------------------------ properties of the events
\* a top-level trigger has returned to the caller
Returned == pc = "idle" /\ log.op # None /\ log.raised = None

QueuesEmpty == \A a \in QueueOwners : frame.lists[frame.eq[a]] = <<>>

\* the positions of the trace with an entry of sort e
At(e) == {x \in DOMAIN log.ev : log.ev[x].e = e}

\* where the broadcast with serial n starts
BcastPos(n) == CHOOSE p \in At("bcast") : log.ev[p].n = n

\* the entities broadcast n visited
Visited(n) ==
    UNION {{log.ev[p].args[i] : i \in DOMAIN log.ev[p].args} :
              p \in {q \in At("entities") : log.ev[q].n = n}}

\* listener l of entity t is one that the broadcast at trace position y
\* addresses
Addressed(l, t, y) ==
    /\ l.at = log.ev[y].at
    /\ IsInstance(l.trigger.kind, log.ev[y].kind)
    /\ matches(Engine, l.trigger.args, t, log.ev[y].args)
    /\ t \in Visited(log.ev[y].n)

\* C11: once Silence(target) has completed the target's listener list is
\* empty, the target is flagged silenced, and no broadcast that starts later,
\* in either phase, fires a listener of the target.
C11_Silenced ==
    /\ \A c \in Cards : cards[c].silenced => cards[c].events = <<>>
    /\ \A y \in At("fire") :
          /\ ~log.args.cards[log.ev[y].by].silenced
          /\ \A x \in At("silenced") :
                log.ev[x].args[1] = log.ev[y].by
                    => y < x /\ BcastPos(log.ev[y].n) < x

\* a silenced entity is visited by a later broadcast that one of its former
\* listeners was registered for
C11_SilencedWitness ==
    \E x \in At("silenced") : \E y \in At("bcast") :
        LET t == log.ev[x].args[1]
        IN  /\ x < y
            /\ cards[t].silenced
            /\ ~Skips(log.ev[y].kind, t, log.ev[y].args)
            /\ \E i \in DOMAIN log.args.cards[t].events :
                  Addressed(log.args.cards[t].events[i], t, y)

\* the deliveries of the deferred record with serial n
Delivered(n) == {y \in At("deliver") : log.ev[y].n = n}

\* C12: every broadcast record that queue_broadcast stored during a trigger
\* is delivered exactly once, records of one instance in the order they were
\* stored, and every event_queue is empty when the trigger has returned, also
\* when a reaction triggers the same Action instance again.
C12_AsClaimed ==
    Returned =>
        /\ QueuesEmpty
        /\ \A x \in At("defer") : Cardinality(Delivered(log.ev[x].n)) = 1
        /\ \A x1, x2 \in At("defer") :
              (x1 < x2 /\ log.ev[x1].by = log.ev[x2].by) =>
                  \A y1 \in Delivered(log.ev[x1].n), y2 \in Delivered(log.ev[x2].n) :
                      y1 < y2

\* the deliveries of the Summon ON record that Play.do stores on itself
SyntheticSummonOn ==
    {y \in At("deliver") :
        \E x \in At("defer") : log.ev[x].by = "play" /\ log.ev[x].n = log.ev[y].n}

\* the Play's own broadcasts of phase at
PlayBcast(at) ==
    {y \in At("bcast") : log.ev[y].kind = "Play" /\ log.ev[y].at = at}

\* C13: when a card is played, the synthetic Summon ON broadcast is delivered
\* before the Play's own ON broadcast, both after the card's zone became PLAY
\* and before the Battlecry is queued.
C13_AsClaimed ==
    (Returned /\ log.op = "Play") =>
        \E z \in At("zone"), s \in SyntheticSummonOn, p \in PlayBcast(ON) :
            /\ z < s
            /\ s < p
            /\ \A b \in At("queue") : p < b

\* the Summon AFTER broadcast that Play.do makes for the played minion
PlaySummonAfter ==
    {y \in At("bcast") :
        log.ev[y].kind = "Summon" /\ log.ev[y].at = AFTER /\ log.ev[y].by \in Players}

\* the ON records that Summon.do stores; the AFTER broadcast of the same
\* summon is the next entry of the trace
SummonOnStored == {x \in At("defer") : log.ev[x].by # "play"}

\* a played card: ON before AFTER, for the Play and for its synthetic Summon
PlayOnBeforeAfter ==
    /\ \A q \in PlayBcast(AFTER) : \E p \in PlayBcast(ON) : p < q
    /\ \A q \in PlaySummonAfter : \E s \in SyntheticSummonOn : s < q

\* C14: for Play and Summon the ON broadcast of an event is delivered
\* strictly before the AFTER broadcast of the same event.
C14_AsClaimed ==
    Returned =>
        /\ PlayOnBeforeAfter
        /\ \A x \in SummonOnStored :
              /\ log.ev[x + 1].e = "bcast" /\ log.ev[x + 1].at = AFTER
              /\ \E y \in Delivered(log.ev[x].n) : y < x + 1

\* the entities that had been silenced by trace position y
SilencedBy(y) ==
    {c \in Cards : log.args.cards[c].silenced}
        \cup {log.ev[x].args[1] : x \in {q \in At("silenced") : q < y}}

\* the Play and Summon broadcasts of the trace
SubjectBcast == {y \in At("bcast") : log.ev[y].kind \in {"Play", "Summon"}}

\* entity t has a listener that the broadcast at position y addresses and
\* that is still registered when the broadcast starts
Listens(t, y) ==
    /\ t \notin SilencedBy(y)
    /\ \E i \in DOMAIN log.args.cards[t].events :
          Addressed(log.args.cards[t].events[i], t, y)

\* the broadcast with serial n made a listener of entity t fire
Fired(t, n) == \E f \in At("fire") : log.ev[f].by = t /\ log.ev[f].n = n

\* the broadcast at position y is one that Play.do makes for the played card
OfThePlay(y) ==
    \/ log.ev[y].kind = "Play"
    \/ log.ev[y].kind = "Summon" /\ log.ev[y].by \in Players

\* C16: the card that is the subject of a Play or Summon broadcast never has
\* its own listeners fired by it, in either phase, the synthetic Summon
\* broadcasts of Play and the plays that morph the card included, while the
\* matching listeners of every other entity among game.entities and
\* game.hands are fired.
C16_SelfSuppressed ==
    /\ \A f \in At("fire") :
          log.ev[f].kind \in {"Play", "Summon"} => log.ev[f].by # log.ev[f].args[2]
    /\ \A f \in At("fire") :
          OfThePlay(BcastPos(log.ev[f].n)) =>
              log.ev[f].by \notin {log.args.card, cards[log.args.card].morphed}
    /\ Returned =>
          \A y \in SubjectBcast : \A t \in Cards :
              (t # log.ev[y].args[2] /\ Listens(t, y))
                  => Fired(t, log.ev[y].n)

\* a morphing play has returned: a listener of the subject was addressed by
\* an ON and by an AFTER broadcast without firing, and a listener of another
\* entity fired
C16_Witness ==
    /\ Returned /\ log.op = "Play"
    /\ cards[log.args.card].morphed # None
    /\ \E y \in SubjectBcast :
          /\ log.ev[y].at = ON
          /\ Listens(log.ev[y].args[2], y)
    /\ \E y \in SubjectBcast :
          /\ log.ev[y].at = AFTER
          /\ Listens(log.ev[y].args[2], y)
    /\ \E y \in SubjectBcast : \E t \in Cards :
          t # log.ev[y].args[2] /\ Fired(t, log.ev[y].n)

\* what "if not card.cant_play" read when the played card was tested
CounteredAtTest ==
    \E x \in At("cant_play") : log.ev[x].args[2]

\* the bookkeeping of a play by the player of the running trace
PlayBooked ==
    LET p == log.args.player
        c == log.args.card
        before == log.args.players[p]
        now == players[p]
    IN  /\ now.mana = before.mana - log.args.cards[c].cost
        /\ now.combo
        /\ now.last_card_played = c
        /\ now.cards_played_this_turn = before.cards_played_this_turn + 1
        /\ now.minions_played_this_turn =
              before.minions_played_this_turn
                  + (IF log.args.cards[c].type = "MINION" THEN 1 ELSE 0)

\* C18: a play whose card is countered by the time the ON broadcasts have
\* been delivered queues no Battlecry, and yet pays the mana, moves the card
\* to PLAY and does the bookkeeping of an uncountered play: combo is set,
\* last_card_played is the card, cards_played_this_turn grows by one and,
\* for a minion, minions_played_this_turn too.
C18_CounteredPlay ==
    (Returned /\ log.op = "Play") =>
        /\ PlayBooked
        /\ CounteredAtTest =>
              /\ At("queue") = {}
              /\ \A t \in At("trigger") : log.ev[t].kind # "Battlecry"
              /\ PlaySummonAfter = {} /\ PlayBcast(AFTER) = {}
              /\ cards[log.args.card].zone = "PLAY"

\* a countered play of a minion holding a play action has returned
C18_Witness ==
    /\ Returned /\ log.op = "Play"
    /\ CounteredAtTest
    /\ log.args.cards[log.args.card].type = "MINION"
    /\ log.args.cards[log.args.card].play # <<>>
    /\ players[log.args.player].minions_played_this_turn = 1

\* ------------------------------------- TargetedAction.trigger on its own
\* the caller triggers Action instances with callbacks, repeat counts, empty
\* target sets and source redirects
Triggered == {"cntM", "cntP", "cntN", "cntR", "silM"}

InitTargeted ==
    /\ chars = [c \in Chars |-> InitChar]
    /\ game = InitGame
    /\ deck = NoDecks
    /\ choices = NoChoices
    /\ pc = "idle"
    /\ players = [p \in Players |-> InitPlaying]
    /\ frame = InitQueues
    /\ log = NewTrace(None, <<>>)
    /\ \E e2 \in EventLists({l \in Reacting : l.trigger.kind # "Play"}),
          e3 \in EventLists({l \in Reacting : l.at = AFTER}),
          z3 \in {"PLAY", "HAND"}, t3 \in {"MINION", "SPELL"} :
          cards = [c \in Cards |->
                     CASE c = "c1" -> [InitEntity EXCEPT !.zone = "PLAY"]
                       [] c = "c2" -> [InitEntity EXCEPT !.zone = "PLAY",
                                          !.events = e2]
                       [] c = "c3" -> [InitEntity EXCEPT !.zone = z3,
                                          !.events = e3, !.type = t3]
                       [] OTHER    -> InitEntity]

NextTargeted ==
    \E a \in Triggered, source \in {"c1", "c2"} : ActionTrigger(a, source)

SpecTargeted == InitTargeted /\ [][NextTargeted]_vars

\* ------------------------------------- properties of TargetedAction.trigger
\* the trace positions that satisfy Test, in order
Positions(Test(_)) == SelectSeq([p \in 1..Len(log.ev) |-> p], Test)

\* the activations of the instances of ActionDefs: their "trigger" entries
Activations == {t \in At("trigger") : log.ev[t].kind \in ActionIds}

\* the "return" entry of the activation that starts at trace position t
ReturnOf(t) == CHOOSE r \in At("return") : log.ev[r].n = log.ev[t].n

\* entry q belongs to the steps (hooks, do, results, callbacks) of the
\* activation with serial act
StepOf(q, act, sorts) ==
    log.ev[q].e \in sorts /\ log.ev[q].n = act /\ log.ev[q].kind \in ActionIds

\* the do entries of the trace
TargetDo == {x \in At("do") : log.ev[x].kind \in ActionIds}

\* the next do or post-action hook of the same activation after position x
NextStep(x) ==
    CHOOSE q \in (x + 1)..Len(log.ev) :
        /\ StepOf(q, log.ev[x].n, {"do", "action_end"})
        /\ \A q2 \in (x + 1)..(q - 1) :
              ~StepOf(q2, log.ev[x].n, {"do", "action_end"})

\* from position y on, the callbacks k, k+1, ... of the do at x are enqueued
\* one after the other, each running to its return before the next entry of
\* the activation, and the last one is followed by the activation's next step
RECURSIVE CallbackChain(_, _, _)
CallbackChain(x, y, k) ==
    LET cb == ActionDefs[log.ev[x].kind].callback
    IN  IF k > Len(cb) THEN y = NextStep(x)
        ELSE /\ y < NextStep(x)
             /\ StepOf(y, log.ev[x].n, {"callback"})
             /\ log.ev[y].args = <<cb[k], log.ev[x].args[1]>>
             /\ log.ev[y + 1].e = "trigger"
             /\ log.ev[y + 1].kind = cb[k]
             /\ ReturnOf(y + 1) < NextStep(x)
             /\ CallbackChain(x, ReturnOf(y + 1) + 1, k + 1)

\* where do at x has produced its result
ResultOf(x) ==
    CHOOSE p \in (x + 1)..Len(log.ev) :
        /\ StepOf(p, log.ev[x].n, {"result"})
        /\ p < NextStep(x)

\* C15: with a synchronous manager, every callback of a target is enqueued
\* exactly once, right after that target's do, and has run to completion,
\* with everything it triggered and broadcast, before do runs for the next
\* target.
C15_CallbacksPerTarget ==
    Returned => \A x \in TargetDo : CallbackChain(x, ResultOf(x) + 1, 1)

\* a callback of the first of two targets has made a listener fire, and do
\* has run for the second target afterwards
C15_Witness ==
    /\ Returned
    /\ \E x \in TargetDo : \E f \in At("fire") :
          /\ ActionDefs[log.ev[x].kind].callback # <<>>
          /\ ResultOf(x) < f /\ f < NextStep(x)
          /\ log.ev[NextStep(x)].e = "do"

\* the entries of sorts `sorts` of the activation act in repetition i
StepsOf(act, i, sorts) ==
    Positions(LAMBDA q : StepOf(q, act, sorts) /\ log.ev[q].at = i)

\* the entries of sorts `sorts` of the activation act, all repetitions
AllStepsOf(act, sorts) == Positions(LAMBDA q : StepOf(q, act, sorts))

\* repetition i of the activation at t: one pre-action hook, then one do per
\* target in the order of the target list, then one post-action hook
RepetitionInOrder(t, i) ==
    LET act == log.ev[t].n
        pre == StepsOf(act, i, {"action"})
        post == StepsOf(act, i, {"action_end"})
        dos == StepsOf(act, i, {"do"})
        cbs == StepsOf(act, i, {"callback"})
    IN  /\ Len(pre) = 1 /\ Len(post) = 1
        /\ pre[1] < post[1]
        /\ [j \in 1..Len(dos) |-> log.ev[dos[j]].args[1]] = log.ev[pre[1]].args
        /\ \A j \in 1..Len(dos) : pre[1] < dos[j] /\ dos[j] < post[1]
        /\ \A j \in 1..Len(cbs) : pre[1] < cbs[j] /\ cbs[j] < post[1]
        /\ log.ev[pre[1]].args = <<>> => dos = <<>> /\ cbs = <<>>

\* C20: a trigger with repeat count k calls the pre-action hook once per
\* repetition before the per-target work and the post-action hook once after
\* it, also when the target set is empty (then no do, no callback and no
\* error); do runs once per (repetition, target); without callbacks the
\* returned list holds one result per (repetition, target), in order.
C20_Repetitions ==
    Returned =>
        \A t \in Activations :
            LET a == log.ev[t].kind
                act == log.ev[t].n
                k == ActionDefs[a].times
                results == AllStepsOf(act, {"result"})
            IN  /\ \A i \in 0..(k - 1) : RepetitionInOrder(t, i)
                /\ Len(AllStepsOf(act, {"action"})) = k
                /\ Len(AllStepsOf(act, {"action_end"})) = k
                /\ Len(AllStepsOf(act, {"do"})) = Len(results)
                /\ ActionDefs[a].callback = <<>> =>
                      log.ev[ReturnOf(t)].args =
                          [j \in 1..Len(results) |-> log.ev[results[j]].args[2]]

\* a trigger with more than one repetition and more than one target and no
\* callbacks has returned, and so has one whose target set is empty
C20_Witness ==
    /\ Returned
    /\ \E t \in Activations :
          /\ ActionDefs[log.ev[t].kind].callback = <<>>
          /\ ActionDefs[log.ev[t].kind].times > 1
          /\ Len(log.ev[ReturnOf(t)].args) > ActionDefs[log.ev[t].kind].times
    /\ \E p \in At("action") : log.ev[p].args = <<>> /\ log.ev[p].at > 0

\* ------------------------------------------------ Action.matches on its own
\* the longest pattern and the longest broadcast argument list drawn
MaxArity == 2

\* the sequences over S of length 0..MaxArity
ArgLists(S) == UNION {[1..k -> S] : k \in 0..MaxArity}

\* the listener trigger patterns: _args of the pattern Action
Patterns == ArgLists({None, "SELF", "CONTROLLER", "MINION"})

\* the argument lists of a broadcast
BroadcastArgs == ArgLists({None, "p1", "c1", "c2"})

\* a pattern, a broadcast and the phases and kinds of the two are drawn; the
\* listener is registered on c2
InitMatches ==
    /\ chars = [c \in Chars |-> InitChar]
    /\ game = InitGame
    /\ deck = NoDecks
    /\ choices = NoChoices
    /\ pc = "idle"
    /\ players = [p \in Players |-> InitPlaying]
    /\ frame = InitQueues
    /\ \E pattern \in Patterns, args \in BroadcastArgs,
          lat \in {ON, AFTER}, bat \in {ON, AFTER},
          lkind \in {"Silence", "Counter"}, bkind \in {"Silence"} :
          /\ log = NewTrace("drawn", [pattern |-> pattern, args |-> args,
                                      lat |-> lat, bat |-> bat,
                                      lkind |-> lkind, bkind |-> bkind])
          /\ cards = [c \in Cards |->
                        CASE c = "c1" -> [InitEntity EXCEPT !.zone = "PLAY"]
                          [] c = "c2" ->
                               [InitEntity EXCEPT !.zone = "PLAY",
                                   !.events = <<Listener(lkind, pattern, lat,
                                                         <<"cnt1">>)>>]
                          [] OTHER -> InitEntity]

\* listener.trigger.matches(c2, args) is called
MatchApply ==
    /\ log.op = "drawn"
    /\ log' = [NewTrace("matches", log.args) EXCEPT
                  !.ret = <<matches(Engine, log.args.pattern, "c2", log.args.args)>>]
    /\ UNCHANGED <<chars, game, players, cards, deck, choices, pc, frame>>

\* the broadcasting action's _broadcast(c2, c1, at, *args) is called
BroadcastApply ==
    /\ log.op = "drawn"
    /\ \E r \in {broadcast_entity([Engine EXCEPT !.log =
                                      NewTrace("_broadcast", log.args)],
                                  log.args.bkind, "c2", "c1", log.args.bat,
                                  log.args.args, 1)} :
          /\ cards' = r.cards
          /\ players' = r.players
          /\ frame' = Compact(r.frame)
          /\ log' = r.log
    /\ UNCHANGED <<chars, game, deck, choices, pc>>

NextMatches == MatchApply \/ BroadcastApply

SpecMatches == InitMatches /\ [][NextMatches]_vars

\* the pattern argument sel, evaluated by the listening entity, resolves to
\* the very object arg
ResolvesTo(sel, entity, arg) ==
    LET res == SelEval(Engine, sel, <<arg>>, entity)
    IN  res # <<>> /\ res[1] = arg

\* C17: matches is true exactly when at every argument position of the
\* pattern the pattern argument is None or resolves to the very same object
\* as the broadcast argument at that position, a pattern argument other than
\* None never matching a None broadcast argument; a listener fires only when
\* its phase is the broadcast's and its pattern is of the broadcasting
\* action's kind.
C17_AsClaimed ==
    /\ log.op = "matches" =>
          log.ret[1] =
              \A i \in DOMAIN log.args.pattern :
                  \/ log.args.pattern[i] = None
                  \/ /\ i \in DOMAIN log.args.args
                     /\ log.args.args[i] # None
                     /\ ResolvesTo(log.args.pattern[i], "c2", log.args.args[i])
    /\ (log.op = "_broadcast" /\ At("fire") # {}) =>
          log.args.lat = log.args.bat /\ log.args.lkind = log.args.bkind

\* ---------------------------------------------------------- Action.then
\* In this specification `frame` is the heap of Action objects and `log` the
\* last call made on one of them.

\* the most Action objects the heap holds
MaxObjects == 2

\* classes that derive from GameAction and from TargetedAction
GameKinds == {"Attack"}
TargetedKinds == {"Summon", "Silence"}

\* the named options a constructor call may carry
OptionNames == {"source", "index"}

Options ==
    UNION {[names -> {"SELF", "CONTROLLER"}] : names \in SUBSET OptionNames}

\* Action.__init__ lines 55-60
ActionInit(cls, args, kwargs) ==
    [cls |-> cls, _args |-> args, _kwargs |-> kwargs, source |-> "no attribute",
     callback |-> <<>>, times |-> 1]

\* TargetedAction.__init__ lines 430-433: the source option is popped before
\* Action.__init__ stores the named options
TargetedActionInit(cls, args, kwargs) ==
    LET rest == [k \in DOMAIN kwargs \ {"source"} |-> kwargs[k]]
    IN  [ActionInit(cls, args, rest) EXCEPT
            !.source = IF "source" \in DOMAIN kwargs THEN kwargs["source"]
                       ELSE None]

\* self.__class__(*args, **kwargs)
New(cls, args, kwargs) ==
    IF cls \in TargetedKinds THEN TargetedActionInit(cls, args, kwargs)
    ELSE ActionInit(cls, args, kwargs)

\* Action.then lines 72-80
then(self, args) ==
    [New(self.cls, self._args, self._kwargs) EXCEPT
        !.callback = args, !.times = self.times]

\* the response chains handed to then
Chains == {<<>>, <<"sumA">>, <<"sumA", "cnt1">>}

InitThen ==
    /\ chars = [c \in Chars |-> InitChar]
    /\ game = InitGame
    /\ deck = NoDecks
    /\ choices = NoChoices
    /\ pc = "idle"
    /\ players = [p \in Players |-> InitPlaying]
    /\ cards = [c \in Cards |-> InitEntity]
    /\ log = NewTrace(None, <<>>)
    /\ \E cls \in GameKinds \cup TargetedKinds,
          args \in {<<>>, <<"SELF">>, <<"p1", <<"c4">>>>},
          kwargs \in Options :
          frame = <<New(cls, args, kwargs)>>

\* a.then(r1, ..., rk) is called on the object at heap index a
ThenCall(a, rs) ==
    /\ Len(frame) < MaxObjects
    /\ frame' = Append(frame, then(frame[a], rs))
    /\ log' = [NewTrace("then", [a |-> a, rs |-> rs, heap |-> frame])
                  EXCEPT !.ret = Len(frame) + 1]
    /\ UNCHANGED <<chars, game, players, cards, deck, choices, pc>>

\* TargetedAction.__mul__ lines 439-441: a * value sets times on a itself
MulCall(a, value) ==
    /\ frame[a].cls \in TargetedKinds
    /\ frame[a].times # value
    /\ frame' = [frame EXCEPT ![a].times = value]
    /\ log' = [NewTrace("mul", [a |-> a, value |-> value, heap |-> frame])
                  EXCEPT !.ret = a]
    /\ UNCHANGED <<chars, game, players, cards, deck, choices, pc>>

NextThen ==
    \/ \E a \in DOMAIN frame, rs \in Chains : ThenCall(a, rs)
    \/ \E a \in DOMAIN frame, value \in 1..MaxTimes : MulCall(a, value)

SpecThen == InitThen /\ [][NextThen]_vars

\* C19: a.then(r1, ..., rk) returns a new Action of the kind of a with the
\* positional arguments, named options, source redirect and times of a and
\* the callback chain (r1, ..., rk), and leaves a as it was.
C19_AsClaimed ==
    log.op = "then" =>
        LET a == log.args.heap[log.args.a]
            ret == frame[log.ret]
        IN  /\ log.ret \notin DOMAIN log.args.heap
            /\ ret.cls = a.cls
            /\ ret._args = a._args
            /\ ret._kwargs = a._kwargs
            /\ ret.source = a.source
            /\ ret.times = a.times
            /\ ret.callback = log.args.rs
            /\ frame[log.args.a] = a

\* ================================================= combat, Hit after Hit
\* Attack.do after its ON broadcast, in the two steps between which the
\* reactions to the first Hit act.

\* "defender = source.game.proposed_defender", Attack.do line 171; defender
\* on the right is the argument do was called with
ProposedDefenderBug(g, defender) == defender
ProposedDefender(g, defender) == g.proposed_defender

\* Attack.do lines 184-187: the counter Hit is built from the local def_atk
\* saved on line 184; defender is the character as it is on line 186
DefAtkBug(def_atk, defender) == defender.atk
DefAtk(def_atk, defender) == def_atk

\* Attack.do lines 171-185 (and GameAction.trigger lines 149-150 on the
\* early return): the defender is re-read, the proposed pair reset, the
\* abort and the self-attack assertion tested, def_atk saved and the Hit
\* on the defender queued.  log.args.read keeps what line 184 read.
AttackHitDefender ==
    /\ pc = "Attack.on"
    /\ LET attacker == frame.attacker
           defender == ProposedDefender(game, log.args.defender)
           def_atk == chars[defender].atk
           l0 == [log EXCEPT !.args = @ @@ [read |-> [defender |-> defender,
                                                      def_atk |-> def_atk]]]
           h1 == HitRun([chars |-> chars, log |-> l0], attacker, defender,
                        chars[attacker].atk)
       IN  /\ game' = [game EXCEPT !.proposed_attacker = None,
                                   !.proposed_defender = None]
           /\ IF AttackExits(chars[attacker])
              THEN /\ chars' = [chars EXCEPT ![attacker].attack_target = None,
                                            ![defender].defending = FALSE]
                   /\ log' = [log EXCEPT !.action_end = @ + 1]
                   /\ pc' = "idle"
                   /\ frame' = NoFrame
              ELSE IF attacker = defender
              THEN /\ chars' = chars
                   /\ log' = [log EXCEPT !.raised = "AssertionError"]
                   /\ pc' = "idle"
                   /\ frame' = NoFrame
              ELSE /\ chars' = h1.chars
                   /\ log' = h1.log
                   /\ pc' = "Attack.hit"
                   /\ frame' = [op |-> "Attack", source |-> frame.source,
                                attacker |-> attacker, defender |-> defender,
                                def_atk |-> def_atk]
    /\ UNCHANGED <<players, cards, deck, choices>>

\* A reaction to the Damage ON broadcast of the first Hit (card scripts,
\* entity layer; Enrage is the comment's example on line 183) changes the
\* atk of the damaged defender.
AttackEnrage(v) ==
    /\ pc = "Attack.hit"
    /\ log.written = <<>>
    /\ \E i \in 1..Len(log.bcasts) :
          /\ log.bcasts[i].kind = "Damage"
          /\ log.bcasts[i].args[1] = frame.defender
    /\ v # chars[frame.defender].atk
    /\ chars' = [chars EXCEPT ![frame.defender].atk = v]
    /\ log' = [log EXCEPT !.written = <<"atk">>]
    /\ UNCHANGED <<game, players, cards, deck, choices, pc, frame>>

\* Attack.do lines 186-193 and GameAction.trigger lines 149-150
AttackHitAttacker ==
    /\ pc = "Attack.hit"
    /\ LET attacker == frame.attacker
           defender == frame.defender
           amount == DefAtk(frame.def_atk, chars[defender])
           h2 == IF amount # 0
                 THEN HitRun([chars |-> chars, log |-> log], defender,
                             attacker, amount)
                 ELSE [chars |-> chars, log |-> log, ret |-> 0]
       IN  /\ chars' = [h2.chars EXCEPT ![attacker].attack_target = None,
                                        ![defender].defending = FALSE,
                                        ![attacker].num_attacks = @ + 1]
           /\ log' = [Broadcast(h2.log, "Attack", frame.source, AFTER,
                                <<attacker, defender>>)
                      EXCEPT !.action_end = @ + 1]
    /\ pc' = "idle"
    /\ frame' = NoFrame
    /\ UNCHANGED <<game, players, cards, deck, choices>>

NextCombat ==
    \/ \E d \in Chars : AttackTrigger("p1", "m1", d)
    \/ AttackOnExitCombat
    \/ \E n \in Chars : RetargetDo(n)
    \/ AttackHitDefender
    \/ \E v \in 0..MaxAtk : AttackEnrage(v)
    \/ AttackHitAttacker

SpecCombat == InitAttack /\ [][NextCombat]_vars

\* the Hits of the Attack that source queued, in order
HitsBy(source) ==
    SelectSeq(log.queued, LAMBDA q : q.kind = "Hit" /\ q.source = source)

\* the Attack ran to its end: neither aborted nor stopped by the assertion
AttackCompleted ==
    /\ AttackReturned
    /\ ~chars[log.args.attacker].should_exit_combat

\* C21: when an Attack has run to its end, the one Hit queued on the
\* attacker carries the atk the defender had when line 184 read it (before
\* the Hit on the defender), and there is no such Hit when that atk was 0;
\* the attacker's num_attacks is one more than before a completed Attack and
\* the same as before an aborted one.
C21_SavedAtk ==
    /\ AttackCompleted =>
          LET X == log.args.attacker
              r == log.args.read
          IN  /\ HitsBy(r.defender) =
                    IF r.def_atk # 0
                    THEN <<[kind |-> "Hit", source |-> r.defender,
                            args |-> <<X, r.def_atk>>]>>
                    ELSE <<>>
              /\ chars[X].num_attacks = log.args.num_attacks + 1
    /\ (AttackReturned /\ chars[log.args.attacker].should_exit_combat) =>
          chars[log.args.attacker].num_attacks = log.args.num_attacks

\* C21 witness: the first Hit damaged the defender, a reaction changed the
\* defender's atk, and the Attack ran to its end with the counter Hit
C21_Witness ==
    /\ AttackCompleted
    /\ log.written = <<"atk">>
    /\ log.args.read.def_atk # 0
    /\ chars[log.args.read.defender].atk # log.args.read.def_atk
    /\ Len(HitsBy(log.args.read.defender)) = 1

\* the Retargets the ON broadcast of the Attack caused
Retargets == SelectSeq(log.queued, LAMBDA q : q.kind = "Retarget")

\* the Attack ran to its end after a Retarget to a new defender
Retargeted == AttackCompleted /\ Retargets # <<>>

\* C24: when Attack(X, Y) has run to its end after its ON broadcast
\* retargeted X to Z: the Hit of X is on Z and no damage reached Y, the
\* counter Hit on X carries Z's atk, neither Y nor Z is defending; and the
\* game's proposed attacker and defender are None whenever the engine is
\* not inside an Attack ON broadcast.
C24_Retarget ==
    /\ Retargeted =>
          LET X == log.args.attacker
              Y == log.args.defender
              Z == Retargets[Len(Retargets)].args[2]
          IN  /\ HitsBy(X) = <<[kind |-> "Hit", source |-> X,
                                args |-> <<Z, chars[X].atk>>]>>
              /\ \A i \in 1..Len(log.hits) : log.hits[i].target \in {X, Z}
              /\ \A i \in 1..Len(log.queued) :
                    log.queued[i].kind \in {"Hit", "Predamage"} =>
                        log.queued[i].args[1] \in {X, Z}
              /\ log.args.read = [defender |-> Z, def_atk |-> log.args.read.def_atk]
              /\ \A i \in 1..Len(HitsBy(Z)) :
                    HitsBy(Z)[i].args = <<X, log.args.read.def_atk>>
              /\ ~chars[Y].defending
              /\ ~chars[Z].defending
    /\ pc # "Attack.on" =>
          game.proposed_attacker = None /\ game.proposed_defender = None

\* C24 witness: an Attack on Y was retargeted to Z, X damaged Z and Z hit
\* back
C24_Witness ==
    /\ Retargeted
    /\ Retargets[Len(Retargets)].args[2] \notin
          {log.args.attacker, log.args.defender}
    /\ \E i \in 1..Len(log.hits) :
          /\ log.hits[i].target = Retargets[Len(Retargets)].args[2]
          /\ log.hits[i].amount > 0
    /\ Len(HitsBy(Retargets[Len(Retargets)].args[2])) = 1

\* ================================================================== heal
MaxDouble == 1      \* largest healing_double of a player
MaxWound == 3       \* largest damage of a character at the start

\* the player that controls a character
char_controller(c) == IF c \in {"h1", "m1"} THEN "p1" ELSE "p2"

\* "amount <<= source.controller.healing_double", Heal.do line 841
RECURSIVE HealShift(_, _)
HealShift(amount, d) == IF d = 0 THEN amount ELSE HealShift(amount * 2, d - 1)

\* "if amount:", Heal.do line 843: whether the target receives the heal
HealsBug(amount) == TRUE
Heals(amount) == amount # 0

\* Heal.do line 847 defers the ON broadcast with queue_broadcast (lines
\* 97-98), where a plain broadcast would deliver it on the spot
DeferredBug(st, rec) ==
    [st EXCEPT !.log.written =
        Append(@, [e |-> "deliver", k |-> rec.k, target |-> rec.target,
                   amount |-> rec.amount])]
Deferred(st, rec) == [st EXCEPT !.queue = Append(@, rec)]

\* Heal.do lines 836-847 for one target.  st = [chars, players, log, queue];
\* log.written gets what this do saw and did, numbered k.
HealDo(st, source, target, amount) ==
    LET ctrl == st.players[char_controller(source)]
        k == Len(SelectSeq(st.log.written, LAMBDA w : w.e = "do")) + 1
    IN  IF ctrl.outgoing_healing_adjustment
        THEN LET h == HitRun([chars |-> st.chars, log |-> st.log], source,
                             target, amount)
             IN  [st EXCEPT !.chars = h.chars,
                            !.log = [h.log EXCEPT !.written =
                                Append(@, [e |-> "do", k |-> k,
                                           target |-> target, amount |-> amount,
                                           was |-> st.chars[target],
                                           now |-> h.chars[target],
                                           healed |-> 0, as_damage |-> TRUE])]]
        ELSE LET a == Min(HealShift(amount, ctrl.healing_double),
                          st.chars[target].damage)
                 c1 == IF Heals(a)
                       THEN [st.chars[target] EXCEPT !.damage = @ - a]
                       ELSE st.chars[target]
                 s1 == [st EXCEPT !.chars[target] = c1,
                                  !.log.written =
                                      Append(@, [e |-> "do", k |-> k,
                                                 target |-> target,
                                                 amount |-> amount,
                                                 was |-> st.chars[target],
                                                 now |-> c1,
                                                 healed |-> IF Heals(a) THEN a ELSE 0,
                                                 as_damage |-> FALSE])]
             IN  IF Heals(a)
                 THEN Deferred(s1, [k |-> k, source |-> source,
                                    target |-> target, amount |-> a])
                 ELSE s1

\* TargetedAction.trigger lines 498-500: the loop over the targets, from
\* index j
RECURSIVE HealTargets(_, _, _, _, _)
HealTargets(st, source, targets, amount, j) ==
    IF j > Len(targets) THEN st
    ELSE HealTargets(HealDo(st, source, targets[j], amount), source, targets,
                     amount, j + 1)

\* TargetedAction.trigger lines 491-506: the loop over range(times), from
\* repetition i, with the hooks of the manager around each repetition
RECURSIVE HealReps(_, _, _, _, _, _)
HealReps(st, source, targets, amount, times, i) ==
    IF i >= times THEN st
    ELSE LET s1 == HealTargets([st EXCEPT !.log.action = @ + 1], source,
                               targets, amount, 1)
         IN  HealReps([s1 EXCEPT !.log.action_end = @ + 1], source, targets,
                      amount, times, i + 1)

\* TargetedAction.trigger lines 477-506 of Heal(targets, amount) * times:
\* every repetition, up to the flush of line 508.  One Heal is followed from
\* each start.
HealTrigger(source, targets, amount, times) ==
    /\ pc = "idle"
    /\ log.op = None
    /\ LET l0 == [NewLog("Heal") EXCEPT !.args =
                    [source |-> source, targets |-> targets,
                     amount |-> amount, times |-> times]]
           r == HealReps([chars |-> chars, players |-> players, log |-> l0,
                          queue |-> <<>>],
                         source, targets, amount, times, 0)
       IN  /\ chars' = r.chars
           /\ log' = r.log
           /\ frame' = [op |-> "Heal", source |-> source, queue |-> r.queue]
    /\ pc' = "Heal.flush"
    /\ UNCHANGED <<game, players, cards, deck, choices>>

\* Action.resolve_broadcasts lines 101-102: the next stored record is
\* broadcast
HealDeliver ==
    /\ pc = "Heal.flush"
    /\ frame.queue # <<>>
    /\ LET rec == Head(frame.queue)
       IN  log' = [Broadcast(log, "Heal", rec.source, ON,
                             <<rec.target, rec.amount>>)
                   EXCEPT !.written =
                       Append(@, [e |-> "deliver", k |-> rec.k,
                                  target |-> rec.target, amount |-> rec.amount])]
    /\ frame' = [frame EXCEPT !.queue = Tail(@)]
    /\ UNCHANGED <<chars, game, players, cards, deck, choices, pc>>

\* A listener of the Heal ON broadcast delivered last (card scripts, entity
\* layer) reacts with a Hit of 1 on the healed character.
HealOnListener ==
    /\ pc = "Heal.flush"
    /\ log.queued = <<>>
    /\ log.bcasts # <<>>
    /\ LET b == log.bcasts[Len(log.bcasts)]
           h == HitRun([chars |-> chars, log |-> log], b.args[1], b.args[1], 1)
       IN  /\ chars' = h.chars
           /\ log' = h.log
    /\ UNCHANGED <<game, players, cards, deck, choices, pc, frame>>

\* Action.resolve_broadcasts line 103 and TargetedAction.trigger line 510
HealReturn ==
    /\ pc = "Heal.flush"
    /\ frame.queue = <<>>
    /\ pc' = "idle"
    /\ frame' = NoFrame
    /\ UNCHANGED <<chars, game, players, cards, deck, choices, log>>

\* two characters start with any damage up to MaxWound; the players differ
\* in healing_double and in outgoing_healing_adjustment
InitHeal ==
    /\ \E d \in [{"h1", "m2"} -> 0..MaxWound] :
          chars = [c \in Chars |->
                     [InitChar EXCEPT !.damage = IF c \in DOMAIN d THEN d[c] ELSE 0]]
    /\ game = InitGame
    /\ \E hd \in 0..MaxDouble, adj \in BOOLEAN :
          players = [p \in Players |->
                       InitPlayer @@ [healing_double |-> hd,
                                      outgoing_healing_adjustment |->
                                          (p = "p1" /\ adj)]]
    /\ cards = NoCards
    /\ deck = NoDecks
    /\ choices = NoChoices
    /\ pc = "idle"
    /\ frame = NoFrame
    /\ log = NewLog(None)

\* the characters a Heal's selector resolves to: a stretch of this order
HealOrder == <<"h1", "m2", "m1">>

NextHeal ==
    \/ \E a \in 1..Len(HealOrder), b \in 1..Len(HealOrder),
          n \in 0..MaxAmount, times \in 1..MaxTimes :
          /\ a <= b /\ b - a < MaxTargets
          /\ HealTrigger("m1", SubSeq(HealOrder, a, b), n, times)
    \/ HealDeliver
    \/ HealOnListener
    \/ HealReturn

SpecHeal == InitHeal /\ [][NextHeal]_vars

\* what the do of a Heal saw and did, one entry for each target of each
\* repetition, and the ON broadcasts delivered, both in order
HealDone == SelectSeq(log.written, LAMBDA w : w.e = "do")
HealDelivered == SelectSeq(log.written, LAMBDA w : w.e = "deliver")

\* the numbers of the records still stored or already delivered
HealBroadcasts ==
    LET stored == IF pc = "Heal.flush" THEN frame.queue ELSE <<>>
    IN  {stored[i].k : i \in 1..Len(stored)}
            \cup {HealDelivered[i].k : i \in 1..Len(HealDelivered)}

\* C22: for every target a Heal(target, amount) has processed, from a source
\* whose controller has no outgoing_healing_adjustment: the target's damage
\* went down by min(amount * 2^healing_double, damage) and is not negative;
\* an undamaged target was left as it was and no Heal ON broadcast of it is
\* stored or delivered.
C22_Heal ==
    log.op = "Heal" =>
        \A i \in 1..Len(HealDone) :
            LET w == HealDone[i]
                hd == players[char_controller(log.args.source)].healing_double
                by == IF w.amount * 2^hd < w.was.damage
                      THEN w.amount * 2^hd ELSE w.was.damage
            IN  ~players[char_controller(log.args.source)]
                    .outgoing_healing_adjustment =>
                    /\ w.now.damage = w.was.damage - by
                    /\ w.now.damage >= 0
                    /\ w.now = [w.was EXCEPT !.damage = w.now.damage]
                    /\ w.was.damage = 0 =>
                          w.now = w.was /\ w.k \notin HealBroadcasts
                    /\ by > 0 => w.k \in HealBroadcasts

\* C22 witness: one Heal with a doubled amount healed a target of less than
\* the amount (down to no damage), healed another one of the whole amount
\* and passed an undamaged one
C22_Witness ==
    /\ pc = "idle" /\ log.op = "Heal"
    /\ players[char_controller(log.args.source)].healing_double > 0
    /\ \E i, j \in 1..Len(HealDone) :
          /\ HealDone[i].was.damage > 0
          /\ HealDone[i].now.damage = 0
          /\ HealDone[i].healed < HealDone[i].amount * 2
          /\ HealDone[j].was.damage = 0
          /\ ~HealDone[j].as_damage
    /\ \E i \in 1..Len(HealDone) :
          /\ HealDone[i].now.damage > 0
          /\ HealDone[i].healed = HealDone[i].amount * 2

\* the positions of the trace
HealPositions == 1..Len(log.written)

\* C23: while and after a Heal over several targets and repetitions runs,
\* no Heal ON broadcast is delivered before the last target of the last
\* repetition was processed; when the trigger has returned, the broadcasts
\* delivered are those of the targets actually healed, one each, in the
\* order of the healing.
C23_Deferred ==
    log.op = "Heal" =>
        /\ \A i, j \in HealPositions :
              (log.written[i].e = "deliver" /\ log.written[j].e = "do") => j < i
        /\ pc = "idle" =>
              LET healed == SelectSeq(HealDone, LAMBDA w : w.healed > 0)
              IN  /\ Len(HealDelivered) = Len(healed)
                  /\ \A i \in 1..Len(healed) :
                        /\ HealDelivered[i].k = healed[i].k
                        /\ HealDelivered[i].target = healed[i].target
                        /\ HealDelivered[i].amount = healed[i].healed
                  /\ Len(SelectSeq(log.bcasts, LAMBDA b : b.kind = "Heal"))
                        = Len(healed)

\* C23 witness: a Heal of two repetitions over two targets has returned; it
\* healed both targets in the first repetition and one of them again in the
\* second, a listener reacted during the flush, and three ON broadcasts
\* were delivered
C23_Witness ==
    /\ pc = "idle" /\ log.op = "Heal"
    /\ log.args.times = 2 /\ Len(log.args.targets) = 2
    /\ Len(HealDone) = 4
    /\ HealDone[1].healed > 0 /\ HealDone[2].healed > 0
    /\ HealDone[3].healed > 0 /\ HealDone[4].healed = 0
    /\ Len(HealDelivered) = 3
    /\ log.queued # <<>>

\* ==================================================== damage, re-entrant
\* A listener of the Predamage ON broadcast (card scripts, entity layer)
\* reacts with Hit(target, amount) on the character the broadcast is about:
\* trigger_event hands the Hit to the synchronous queue manager, and Hit.do
\* (lines 823-827), Predamage.do and Damage.do run to their end inside the
\* broadcast of line 580.
PredamageOnHit(source, amount) ==
    /\ pc = "Predamage.on"
    /\ log.queued = <<>>
    /\ LET h == HitRun([chars |-> chars, log |-> log], source, frame.target,
                       amount)
       IN  /\ chars' = h.chars
           /\ log' = h.log
    /\ UNCHANGED <<game, players, cards, deck, choices, pc, frame>>

NextReentrant ==
    \/ \E s \in {"h2", "m2"}, t \in {"h1", "m1"}, n \in 0..MaxAmount :
          PredamageDo(s, t, n)
    \/ \E s \in {"h1", "m2"}, n \in 1..MaxAmount : PredamageOnHit(s, n)
    \/ PredamageDamage

SpecReentrant == InitDamage /\ [][NextReentrant]_vars

\* the Predamages queued by reactions during the ON broadcast of the outer
\* Predamage
NestedPredamages == SelectSeq(log.queued, LAMBDA q : q.kind = "Predamage")

\* C25 (as claimed): when a Predamage on T that staged a1 > 0 has returned
\* and a listener of its ON broadcast caused a Hit of a2 > 0 on T, the
\* nested Damage applied a2 and the outer Damage applied a1 (each times the
\* multiplier of T), an unshielded T carries both as damage, and
\* T.predamage is 0.
C25_AsClaimed ==
    (PredamageReturned /\ NestedPredamages # <<>>) =>
        LET T == log.args.target
            a1 == log.args.amount * (2 ^ log.args.mult)
            a2 == NestedPredamages[1].args[2] * (2 ^ log.args.mult)
        IN  /\ log.hits = << [target |-> T, amount |-> a2],
                             [target |-> T, amount |-> a1] >>
            /\ ~log.args.shield =>
                  chars[T].damage = log.args.damage + a1 + a2
            /\ chars[T].predamage = 0

\* ========================================================= hand capacity
\* Give.do line 808: "len(target.hand) >= target.max_hand_size"
GiveFullBug(n, max) == n > max
GiveFull(n, max) == n >= max

\* Give.do lines 807-813: the loop over cards, from index i; ret collects
\* the cards that went to the hand.  st is the State record.
RECURSIVE GiveLoop(_, _, _, _, _)
GiveLoop(st, target, cs, i, ret) ==
    IF i > Len(cs) THEN [st EXCEPT !.log.ret = ret]
    ELSE IF GiveFull(Cardinality(hand(st.cards, target)),
                     st.players[target].max_hand_size)
    THEN GiveLoop(st, target, cs, i + 1, ret)
    ELSE GiveLoop(SetZone([st EXCEPT !.cards[cs[i]].controller = target],
                          cs[i], "HAND"),
                  target, cs, i + 1, Append(ret, cs[i]))

\* TargetedAction.trigger lines 477-510 around Give.do lines 801-814 for one
\* target player; log.args keeps the cards and the hand before the call
GiveTrigger(source, target, cs) ==
    /\ pc = "idle"
    /\ LET l0 == [NewLog("Give") EXCEPT
                    !.action = 1, !.action_end = 1,
                    !.args = [source |-> source, target |-> target,
                              cards |-> cs, was |-> cards,
                              hand |-> hand(cards, target)]]
       IN  \E r \in {GiveLoop([State EXCEPT !.log = l0], target, cs, 1, <<>>)} :
              /\ cards' = r.cards
              /\ deck' = r.deck
              /\ log' = r.log
    /\ UNCHANGED <<chars, game, players, choices, pc, frame>>

\* the cards a choice that is still open offers
OnOffer ==
    UNION {Range(choices[g].cards) :
           g \in {x \in GenericChoices :
                     /\ choices[x] # NoChoice
                     /\ players[choices[x].player].choice = x}}

\* c1 and c4 are in play or in the hand, c2 is in the hand and c3, c5 are
\* newly created cards; no hand is over its limit
InitHand ==
    /\ chars = [c \in Chars |-> InitChar]
    /\ game = InitGame
    /\ \E mh \in [Players -> 1..MaxHandSize] :
          players = [p \in Players |-> [InitPlayer EXCEPT !.max_hand_size = mh[p]]]
    /\ \E z \in [{"c1", "c4"} -> {"PLAY", "HAND"}] :
          cards = [c \in Cards |->
                     [InitCard EXCEPT
                        !.zone = IF c \in DOMAIN z THEN z[c]
                                 ELSE IF c = "c2" THEN "HAND" ELSE "SETASIDE",
                        !.controller = owner(c),
                        !.type = "MINION"]]
    /\ HandsWithinLimit
    /\ deck = NoDecks
    /\ choices = NoChoices
    /\ pc = "idle"
    /\ frame = NoFrame
    /\ log = NewLog(None)

\* Give takes newly created cards that are not on offer in an open choice; a choice offers cards of its player that are in the hand or
\* newly created, and choose is called on the player's open choice with one
\* of its cards
NextHand ==
    \/ \E target \in Players :
          \E cs \in CardLists({c \in Cards :
                                   /\ cards[c].zone = "SETASIDE"
                                   /\ c \notin OnOffer}) \ {<<>>} :
             GiveTrigger(hero(target), target, cs)
    \/ \E T \in SUBSET Cards :
          /\ Cardinality(T) \in 1..MaxTargets
          /\ \E ts \in Orders(T) : BounceTrigger("p1", ts)
    \/ BounceNext
    \/ BounceEnd
    \/ \E g \in {x \in {"g1"} : choices[x] = NoChoice}, p \in Players :
          /\ players[p].choice = None
          /\ \E cs \in CardLists({c \in Cards :
                                     /\ cards[c].controller = p
                                     /\ cards[c].zone \in {"HAND", "SETASIDE"}
                                     /\ c \notin OnOffer}) \ {<<>>} :
                GenericChoiceTrigger(g, hero(p), p, cs)
    \/ \E g \in GenericChoices :
          /\ choices[g] # NoChoice
          /\ players[choices[g].player].choice = g
          /\ \E c \in Range(choices[g].cards) : GenericChoiceChoose(g, c)

SpecHand == InitHand /\ [][NextHand]_vars

\* a Give has returned; log.args holds its arguments and the state before
GiveReturned == pc = "idle" /\ log.op = "Give"

====
